---------------------------- MODULE Spec2Model ----------------------------
(***************************************************************************)
(* A model of the ruuvi-decoders crate: the hex front end (lib.rs), the    *)
(* byte-level dispatcher (ruuvi_data.rs) and the three format decoders     *)
(* (v5.rs, v6.rs, e1.rs).                                                  *)
(*                                                                         *)
(* Conventions                                                             *)
(*  - a byte slice is a sequence of integers 0..255, indexed from 1, so    *)
(*    the Rust index bytes[i] is bytes[i + 1] here (see At);               *)
(*  - a string is a sequence of one-character strings;                     *)
(*  - Option<T> is a sequence of length 0 (None) or 1 (Some);              *)
(*  - an f64 is an integer number of ten-thousandths (24.3 is 243000), so  *)
(*    that every linear scale of the decoders (x 0.005, x 0.0025, x 0.1,   *)
(*    x 0.01, / 100) is exact;                                             *)
(*  - Result<T> is [tag |-> "Ok", value |-> v] or [tag |-> "Err", error    *)
(*    |-> e]; a panic is [tag |-> "Panic", ...].                           *)
(***************************************************************************)
EXTENDS Integers, Sequences, FiniteSets, TLC

VARIABLES
    hex_data,   \* the &str handed to the string-level entry point
    ble_data,   \* the &str handed to extract_ruuvi_from_ble
    bytes,      \* the &[u8] handed to the byte-level entry points
    call,       \* the entry point called last ("none" before the first call)
    result,     \* what that call returned
    stdout,     \* the lines written to the process's standard output so far
    calls,      \* the number of calls made so far
    threads     \* for each thread of a multi-threaded caller, the call it is in

vars == <<hex_data, ble_data, bytes, call, result, stdout, calls, threads>>

\* The number of entry-point calls made in one behaviour.
MaxCalls == 2

---------------------------------------------------------------------------
(* Option, Result and the error kinds of error.rs                          *)

None == <<>>
Some(v) == <<v>>
IsNone(o) == o = <<>>
IsSome(o) == Len(o) = 1
Unwrap(o) == o[1]

Ok(v) == [tag |-> "Ok", value |-> v]
Err(e) == [tag |-> "Err", error |-> e]
Panic(m) == [tag |-> "Panic", message |-> m]
IsOk(r) == r.tag = "Ok"
IsErr(r) == r.tag = "Err"
IsPanic(r) == r.tag = "Panic"
\* The return value of a function that returns no Result (an Option<String>).
Returned(v) == [tag |-> "Returned", value |-> v]

\* The variants of enum DecodeError.
DecodeErrorKinds ==
    {"InvalidHex", "InvalidLength", "UnsupportedFormat", "InvalidData",
     "ValidationFailed", "DecryptionFailed", "MissingField"}

\* DecodeError::InvalidHex(String) holding a formatted length.
InvalidHexOdd(n) ==
    [kind |-> "InvalidHex", msg |-> "Odd number of hex characters: {}", len |-> n]
\* DecodeError::InvalidHex(hex_str.to_string()).
InvalidHexChars(s) ==
    [kind |-> "InvalidHex", msg |-> "{hex_str}", hex_str |-> s]
\* DecodeError::InvalidLength(String) with free text.
InvalidLengthText(m) == [kind |-> "InvalidLength", msg |-> m]
\* A variant of invalid_length with its two arguments exchanged.
invalid_length_Swapped(expected, actual) ==
    [kind |-> "InvalidLength", msg |-> "Expected {expected} bytes, got {actual}",
     expected |-> actual, actual |-> expected]
\* DecodeError::invalid_length(expected, actual).
invalid_length(expected, actual) ==
    [kind |-> "InvalidLength", msg |-> "Expected {expected} bytes, got {actual}",
     expected |-> expected, actual |-> actual]
\* DecodeError::UnsupportedFormat(u8).
UnsupportedFormat(b) == [kind |-> "UnsupportedFormat", format |-> b]

---------------------------------------------------------------------------
(* Slices and fixed-width integers                                         *)

\* bytes[i] of Rust (0-based).
At(b, i) == b[i + 1]
\* &bytes[from..to] of Rust (0-based, to exclusive).
Slice(b, from, to) == SubSeq(b, from + 1, to)

\* u16::from_be_bytes([hi, lo]).
U16BE(hi, lo) == hi * 256 + lo
\* A variant of I16BE that reads the word as unsigned.
I16BE_Unsigned(hi, lo) == U16BE(hi, lo)
\* i16::from_be_bytes([hi, lo]): the two's-complement reading of the word.
I16BE(hi, lo) ==
    IF U16BE(hi, lo) >= 32768 THEN U16BE(hi, lo) - 65536 ELSE U16BE(hi, lo)
\* i16::MIN.
I16_MIN == -32768
\* A variant of CastSigned8 that takes bit 4 as the sign, as for a 5-bit field.
CastSigned8_FiveBits(x) == IF x >= 16 THEN x - 32 ELSE x
\* u8::cast_signed.
CastSigned8(x) == IF x >= 128 THEN x - 256 ELSE x
\* The i8 that an i8 addition or multiplication leaves when the mathematical
\* result is x: x itself inside -128..127, its two's-complement wrap outside.
WrapI8(x) == ((x + 128) % 256) - 128

\* format!("{b:02x}"): the two lowercase hex digits of a byte.
LowerDigits ==
    <<"0", "1", "2", "3", "4", "5", "6", "7", "8", "9", "a", "b", "c", "d", "e", "f">>
UpperDigits ==
    <<"0", "1", "2", "3", "4", "5", "6", "7", "8", "9", "A", "B", "C", "D", "E", "F">>
\* A variant of Hex02x in upper-case digits ({b:02X}).
Hex02x_Upper(b) == <<UpperDigits[(b \div 16) + 1], UpperDigits[(b % 16) + 1]>>
Hex02x(b) == <<LowerDigits[(b \div 16) + 1], LowerDigits[(b % 16) + 1]>>

RECURSIVE MacHex(_)
\* bytes.iter().fold(String::new(), |out, b| out + format!("{b:02x}")).
MacHex(b) == IF b = <<>> THEN <<>> ELSE Hex02x(Head(b)) \o MacHex(Tail(b))

---------------------------------------------------------------------------
(* v5.rs: Data Format 5                                                    *)

V5_PAYLOAD_LENGTH == 18
V5_PAYLOAD_WITH_MAC_LENGTH == V5_PAYLOAD_LENGTH + 6

\* A variant of decode_temperature that rejects the sentinel, as the Errors
\* section of v5::decode's documentation describes.
decode_temperature_Rejecting(b) ==
    IF Len(b) # 2 THEN Err(InvalidLengthText("Temperature field must be 2 bytes"))
    ELSE LET raw_value == I16BE(b[1], b[2]) IN
         IF raw_value = I16_MIN
         THEN Err([kind |-> "InvalidData", msg |-> "Invalid temperature value"])
         ELSE Ok(Some(raw_value * 50))

decode_temperature(b) ==
    IF Len(b) # 2 THEN Err(InvalidLengthText("Temperature field must be 2 bytes"))
    ELSE LET raw_value == I16BE(b[1], b[2]) IN
         IF raw_value = I16_MIN THEN Ok(None) ELSE Ok(Some(raw_value * 50))

decode_humidity(b) ==
    IF Len(b) # 2 THEN Err(InvalidLengthText("Humidity field must be 2 bytes"))
    ELSE LET raw_value == U16BE(b[1], b[2]) IN
         IF raw_value = 65535 THEN Ok(None) ELSE Ok(Some(raw_value * 25))

decode_pressure(b) ==
    IF Len(b) # 2 THEN Err(InvalidLengthText("Pressure field must be 2 bytes"))
    ELSE LET raw_value == U16BE(b[1], b[2]) IN
         IF raw_value = 65535 THEN Ok(None)
         ELSE Ok(Some((raw_value + 50000) * 10000))

decode_acceleration(b) ==
    IF Len(b) # 2 THEN Err(InvalidLengthText("Acceleration field must be 2 bytes"))
    ELSE LET raw_value == I16BE(b[1], b[2]) IN
         IF raw_value = I16_MIN THEN Ok(None) ELSE Ok(Some(raw_value))

\* A variant of decode_power_info that reads the five power bits as a signed
\* number.
decode_power_info_SignedBits(b) ==
    IF Len(b) # 2 THEN Err(InvalidLengthText("Power info field must be 2 bytes"))
    ELSE LET raw_value == U16BE(b[1], b[2])
             battery_raw == (raw_value \div 32) % 2048
             battery_voltage ==
                 IF battery_raw = 2047 THEN None ELSE Some(battery_raw + 1600)
             tx_power_raw == raw_value % 32
             signed == IF tx_power_raw >= 16 THEN tx_power_raw - 32 ELSE tx_power_raw
             tx_power ==
                 IF tx_power_raw = 31 THEN None
                 ELSE Some(WrapI8(-40 + WrapI8(signed * 2)))
         IN  Ok(<<battery_voltage, tx_power>>)

decode_power_info(b) ==
    IF Len(b) # 2 THEN Err(InvalidLengthText("Power info field must be 2 bytes"))
    ELSE LET raw_value == U16BE(b[1], b[2])
             battery_raw == (raw_value \div 32) % 2048
             battery_voltage ==
                 IF battery_raw = 2047 THEN None ELSE Some(battery_raw + 1600)
             tx_power_raw == raw_value % 32
             tx_power ==
                 IF tx_power_raw = 31 THEN None
                 ELSE Some(WrapI8(-40 + WrapI8(CastSigned8(tx_power_raw) * 2)))
         IN  Ok(<<battery_voltage, tx_power>>)

decode_movement_counter(byte) == IF byte = 255 THEN None ELSE Some(byte)

decode_measurement_sequence(b) ==
    IF Len(b) # 2
    THEN Err(InvalidLengthText("Measurement sequence field must be 2 bytes"))
    ELSE LET raw_value == U16BE(b[1], b[2]) IN
         IF raw_value = 65535 THEN Ok(None) ELSE Ok(Some(raw_value))

\* "invalid".to_string().
INVALID_MAC == <<"i", "n", "v", "a", "l", "i", "d">>

\* A variant of decode_mac_address that takes one 0xFF byte for an invalid
\* address.
decode_mac_address_AnyFF(b) ==
    IF Len(b) # 6 THEN INVALID_MAC
    ELSE IF \E i \in 1..Len(b) : b[i] = 255 THEN INVALID_MAC
    ELSE MacHex(b)

decode_mac_address(b) ==
    IF Len(b) # 6 THEN INVALID_MAC
    ELSE IF \A i \in 1..Len(b) : b[i] = 255 THEN INVALID_MAC
    ELSE MacHex(b)

\* The first Err among the field results, in the order the ? operators run.
FirstErr(rs) == rs[CHOOSE i \in 1..Len(rs) :
                       IsErr(rs[i]) /\ \A j \in 1..(i - 1) : ~IsErr(rs[j])]

\* v5::decode, after its length and identifier checks.
V5Fields(b) ==
    LET temperature == decode_temperature(Slice(b, 1, 3))
        humidity == decode_humidity(Slice(b, 3, 5))
        pressure == decode_pressure(Slice(b, 5, 7))
        acceleration_x == decode_acceleration(Slice(b, 7, 9))
        acceleration_y == decode_acceleration(Slice(b, 9, 11))
        acceleration_z == decode_acceleration(Slice(b, 11, 13))
        power == decode_power_info(Slice(b, 13, 15))
        movement_counter == decode_movement_counter(At(b, 15))
        measurement_sequence == decode_measurement_sequence(Slice(b, 16, 18))
        mac_address == decode_mac_address(Slice(b, 18, 24))
        fallible == <<temperature, humidity, pressure, acceleration_x,
                      acceleration_y, acceleration_z, power, measurement_sequence>>
    IN  IF \E i \in 1..Len(fallible) : IsErr(fallible[i]) THEN FirstErr(fallible)
        ELSE Ok([mac_address |-> mac_address,
                 temperature |-> temperature.value,
                 humidity |-> humidity.value,
                 pressure |-> pressure.value,
                 acceleration_x |-> acceleration_x.value,
                 acceleration_y |-> acceleration_y.value,
                 acceleration_z |-> acceleration_z.value,
                 battery_voltage |-> power.value[1],
                 tx_power |-> power.value[2],
                 movement_counter |-> movement_counter,
                 measurement_sequence |-> measurement_sequence.value])

\* A variant of v5::decode that reports a wrong length as free text, the way
\* its field decoders do.
V5Decode_TextLength(b) ==
    IF Len(b) # V5_PAYLOAD_WITH_MAC_LENGTH
    THEN Err(InvalidLengthText("Payload must be 24 bytes"))
    ELSE IF At(b, 0) # 5 THEN Err(UnsupportedFormat(At(b, 0)))
    ELSE V5Fields(b)

V5Decode(b) ==
    IF Len(b) # V5_PAYLOAD_WITH_MAC_LENGTH
    THEN Err(invalid_length(V5_PAYLOAD_WITH_MAC_LENGTH, Len(b)))
    ELSE IF At(b, 0) # 5 THEN Err(UnsupportedFormat(At(b, 0)))
    ELSE V5Fields(b)

---------------------------------------------------------------------------
(* v6.rs: Data Format 6                                                    *)

V6_PAYLOAD_LENGTH == 17
\* A variant of V6_PAYLOAD_WITH_MAC_LENGTH that leaves the address out, as the
\* doc comment of v6::decode ("should be 17 bytes total") has it.
V6_PAYLOAD_WITH_MAC_LENGTH_NoMac == V6_PAYLOAD_LENGTH
V6_PAYLOAD_WITH_MAC_LENGTH == V6_PAYLOAD_LENGTH + 3

\* min(exp(code * ln(65536) / 254) - 1, 65535) for code = 0..254, evaluated in
\* f64 and rounded to ten-thousandths; entry code + 1 is the value of code.
V6LuminosityTable ==
   <<
      0, 446, 913, 1400, 1908, 2440,
      2995, 3575, 4181, 4814, 5475, 6165,
      6887, 7641, 8428, 9250, 10109, 11007,
      11944, 12924, 13947, 15016, 16132, 17298,
      18517, 19789, 21119, 22508, 23959, 25474,
      27057, 28711, 30439, 32244, 34129, 36099,
      38156, 40305, 42550, 44896, 47346, 49905,
      52579, 55371, 58289, 61337, 64521, 67846,
      71321, 74950, 78741, 82702, 86839, 91161,
      95676, 100392, 105319, 110466, 115842, 121458,
      127325, 133454, 139857, 146545, 153531, 160830,
      168454, 176418, 184738, 193429, 202509, 211993,
      221900, 232250, 243062, 254356, 266154, 278479,
      291354, 304803, 318853, 333530, 348861, 364877,
      381608, 399086, 417343, 436415, 456339, 477152,
      498893, 521605, 545331, 570115, 596006, 623052,
      651305, 680819, 711650, 743858, 777503, 812649,
      849364, 887717, 927782, 969636, 1013357, 1059029,
      1106740, 1156580, 1208645, 1263033, 1319849, 1379200,
      1441200, 1505967, 1573625, 1644302, 1718134, 1795260,
      1875829, 1959994, 2047915, 2139760, 2235703, 2335929,
      2440628, 2550000, 2664253, 2783605, 2908284, 3038527,
      3174583, 3316711, 3465182, 3620280, 3782300, 3951550,
      4128354, 4313049, 4505987, 4707536, 4918080, 5138021,
      5367777, 5607788, 5858510, 6120422, 6394023, 6679835,
      6978403, 7290295, 7616108, 7956462, 8312005, 8683417,
      9071405, 9476708, 9900101, 10342389, 10804417, 11287065,
      11791254, 12317944, 12868141, 13442893, 14043297, 14670496,
      15325688, 16010121, 16725100, 17471988, 18252210, 19067254,
      19918673, 20808091, 21737203, 22707782, 23721678, 24780825,
      25887241, 27043036, 28250415, 29511679, 30829233, 32205590,
      33643374, 35145326, 36714310, 38353319, 40065476, 41854047,
      43722442, 45674223, 47713113, 49842999, 52067941, 54392183,
      56820155, 59356489, 62006019, 64773797, 67665102, 70685446,
      73840588, 77136545, 80579600, 84176319, 87933559, 91858486,
      95958582, 100241665, 104715903, 109389827, 114272348, 119372776,
      124700837, 130266689, 136080946, 142154693, 148499512, 155127501,
      162051297, 169284102, 176839708, 184732522, 192977592, 201590640,
      210588089, 219987095, 229805578, 240062262, 250776702, 261969328,
      273661481, 285875456, 298634541, 311963066, 325886443, 340431221,
      355625134, 371497151, 388077538, 405397909, 423491289, 442392178,
      462136614, 482762246, 504308401, 526816162, 550328446, 574890084,
      600547910, 627350847, 655350000
   >>

\* A variant of V6Luminosity that remembers, from the lines already written,
\* that v6::decode has run before, and then gives None.
V6Luminosity_Remembering(raw_lum) ==
    IF raw_lum = 255 \/ Len(stdout) > 1 THEN None
    ELSE Some(V6LuminosityTable[raw_lum + 1])
\* A variant of V6Luminosity that spreads the codes evenly over the range
\* instead of logarithmically.
V6Luminosity_Linear(raw_lum) ==
    IF raw_lum = 255 THEN None ELSE Some(raw_lum * 2580000)
\* The luminosity of v6::decode from byte 13.
V6Luminosity(raw_lum) ==
    IF raw_lum = 255 THEN None ELSE Some(V6LuminosityTable[raw_lum + 1])

\* The 9-bit index (hi << 1) | flag of v6::decode and e1::decode, None above 500.
GasIndex(hi, flag) ==
    LET value == hi * 2 + flag IN IF value > 500 THEN None ELSE Some(value)
\* A variant of VocFlag that takes bit 7.
VocFlag_Bit7(flags) == (flags \div 128) % 2
\* (flags & 0b0100_0000) >> 6.
VocFlag(flags) == (flags \div 64) % 2
\* (flags & 0b1000_0000) >> 7.
NoxFlag(flags) == (flags \div 128) % 2

V6Temperature(raw_temp) == IF raw_temp = I16_MIN THEN None ELSE Some(raw_temp * 50)
\* A variant of the humidity of v6::decode that drops only the all-ones word.
V6Humidity_Sentinel(raw_humidity) ==
    IF raw_humidity = 65535 THEN None ELSE Some(raw_humidity * 25)
V6Humidity(raw_humidity) ==
    IF raw_humidity > 40000 THEN None ELSE Some(raw_humidity * 25)
\* f64::from(i32::from(raw) + 50000) / 100.0, in hPa.
V6Pressure(raw_pressure) ==
    IF raw_pressure = 65535 THEN None ELSE Some((raw_pressure + 50000) * 100)
V6Pm2_5(raw_pm2_5) == IF raw_pm2_5 > 10000 THEN None ELSE Some(raw_pm2_5 * 1000)
V6Co2(raw_co2) == IF raw_co2 > 40000 THEN None ELSE Some(raw_co2)
V6Reserved(byte) == Some(byte)
V6MeasurementSequence(byte) == Some(byte)

\* v6::decode, after its length and identifier checks.
V6Fields(b) ==
    Ok([temperature |-> V6Temperature(I16BE(At(b, 1), At(b, 2))),
        humidity |-> V6Humidity(U16BE(At(b, 3), At(b, 4))),
        pressure |-> V6Pressure(U16BE(At(b, 5), At(b, 6))),
        pm2_5 |-> V6Pm2_5(U16BE(At(b, 7), At(b, 8))),
        co2 |-> V6Co2(U16BE(At(b, 9), At(b, 10))),
        voc_index |-> GasIndex(At(b, 11), VocFlag(At(b, 16))),
        nox_index |-> GasIndex(At(b, 12), NoxFlag(At(b, 16))),
        luminosity |-> V6Luminosity(At(b, 13)),
        reserved |-> V6Reserved(At(b, 14)),
        measurement_sequence |-> V6MeasurementSequence(At(b, 15)),
        flags |-> At(b, 16),
        mac_address |-> MacHex(Slice(b, V6_PAYLOAD_LENGTH, V6_PAYLOAD_WITH_MAC_LENGTH))])

\* A variant of v6::decode that lets the other registered identifiers pass.
V6Decode_AnyRegistered(b) ==
    IF Len(b) # V6_PAYLOAD_WITH_MAC_LENGTH
    THEN Err(invalid_length(V6_PAYLOAD_WITH_MAC_LENGTH, Len(b)))
    ELSE IF At(b, 0) \notin {5, 6, 225} THEN Err(UnsupportedFormat(At(b, 0)))
    ELSE V6Fields(b)

V6Decode(b) ==
    IF Len(b) # V6_PAYLOAD_WITH_MAC_LENGTH
    THEN Err(invalid_length(V6_PAYLOAD_WITH_MAC_LENGTH, Len(b)))
    ELSE IF At(b, 0) # 6 THEN Err(UnsupportedFormat(At(b, 0)))
    ELSE V6Fields(b)

\* println!("Luminosity: {raw_lum} => {:?}", luminosity): the lines v6::decode
\* writes to standard output, which it reaches only past both checks.
V6Printed(b) ==
    IF Len(b) = V6_PAYLOAD_WITH_MAC_LENGTH /\ At(b, 0) = 6
    THEN <<[text |-> "Luminosity: {raw_lum} => {:?}",
            raw_lum |-> At(b, 13), luminosity |-> V6Luminosity(At(b, 13))]>>
    ELSE <<>>

---------------------------------------------------------------------------
(* e1.rs: Data Format E1                                                   *)

E1_PAYLOAD_LENGTH == 34
E1_PAYLOAD_WITH_MAC_LENGTH == E1_PAYLOAD_LENGTH + 6

\* get_u32: the 24-bit big-endian value of three bytes.
U24BE(b0, b1, b2) == b0 * 65536 + b1 * 256 + b2

E1Temperature(raw_temp) == IF raw_temp = I16_MIN THEN None ELSE Some(raw_temp * 50)
E1Humidity(raw_humidity) ==
    IF raw_humidity = 65535 THEN None ELSE Some(raw_humidity * 25)
E1Pressure(raw_pressure) ==
    IF raw_pressure = 65535 THEN None ELSE Some((raw_pressure + 50000) * 100)
\* pm1_0, pm2_5, pm4_0 and pm10_0 share one shape.
\* A variant of E1Pm with the range check of v6::decode.
E1Pm_Range(raw_pm) == IF raw_pm > 10000 THEN None ELSE Some(raw_pm * 1000)
E1Pm(raw_pm) == IF raw_pm = 65535 THEN None ELSE Some(raw_pm * 1000)
\* A variant of the co2 of e1::decode with the range check of v6::decode.
E1Co2_Range(raw_co2) == IF raw_co2 > 40000 THEN None ELSE Some(raw_co2)
E1Co2(raw_co2) == IF raw_co2 = 65535 THEN None ELSE Some(raw_co2)
E1Luminosity(raw_lum) == IF raw_lum = 16777215 THEN None ELSE Some(raw_lum * 100)
\* A variant of the measurement sequence of e1::decode that compares with the
\* 16-bit sentinel.
E1MeasurementSequence_U16(raw_seq) == IF raw_seq = 65535 THEN None ELSE Some(raw_seq)
E1MeasurementSequence(raw_seq) == IF raw_seq = 16777215 THEN None ELSE Some(raw_seq)

\* e1::decode, after its length and identifier checks.
E1Fields(b) ==
    Ok([temperature |-> E1Temperature(I16BE(At(b, 1), At(b, 2))),
        humidity |-> E1Humidity(U16BE(At(b, 3), At(b, 4))),
        pressure |-> E1Pressure(U16BE(At(b, 5), At(b, 6))),
        pm1_0 |-> E1Pm(U16BE(At(b, 7), At(b, 8))),
        pm2_5 |-> E1Pm(U16BE(At(b, 9), At(b, 10))),
        pm4_0 |-> E1Pm(U16BE(At(b, 11), At(b, 12))),
        pm10_0 |-> E1Pm(U16BE(At(b, 13), At(b, 14))),
        co2 |-> E1Co2(U16BE(At(b, 15), At(b, 16))),
        voc_index |-> GasIndex(At(b, 17), VocFlag(At(b, 28))),
        nox_index |-> GasIndex(At(b, 18), NoxFlag(At(b, 28))),
        luminosity |-> E1Luminosity(U24BE(At(b, 19), At(b, 20), At(b, 21))),
        measurement_sequence |->
            E1MeasurementSequence(U24BE(At(b, 25), At(b, 26), At(b, 27))),
        flags |-> At(b, 28),
        mac_address |-> MacHex(Slice(b, E1_PAYLOAD_LENGTH, E1_PAYLOAD_WITH_MAC_LENGTH))])

\* A variant of e1::decode that looks at the identifier before the length.
E1Decode_FormatFirst(b) ==
    IF b # <<>> /\ At(b, 0) # 225 THEN Err(UnsupportedFormat(At(b, 0)))
    ELSE IF Len(b) # E1_PAYLOAD_WITH_MAC_LENGTH
    THEN Err(invalid_length(E1_PAYLOAD_WITH_MAC_LENGTH, Len(b)))
    ELSE E1Fields(b)

E1Decode(b) ==
    IF Len(b) # E1_PAYLOAD_WITH_MAC_LENGTH
    THEN Err(invalid_length(E1_PAYLOAD_WITH_MAC_LENGTH, Len(b)))
    ELSE IF At(b, 0) # 225 THEN Err(UnsupportedFormat(At(b, 0)))
    ELSE E1Fields(b)

---------------------------------------------------------------------------
(* lib.rs: the hex front end                                               *)

\* char::is_whitespace, over the characters the model's inputs use.
WhiteSpace == {" ", "\t", "\n", "\r"}
HexDigits == {LowerDigits[i] : i \in 1..16} \cup {UpperDigits[i] : i \in 1..16}

RECURSIVE TrimStart(_)
TrimStart(s) ==
    IF s # <<>> /\ Head(s) \in WhiteSpace THEN TrimStart(Tail(s)) ELSE s
RECURSIVE TrimEnd(_)
TrimEnd(s) ==
    IF s # <<>> /\ s[Len(s)] \in WhiteSpace
    THEN TrimEnd(SubSeq(s, 1, Len(s) - 1)) ELSE s
\* A variant of Trim that leaves trailing white space in place.
Trim_StartOnly(s) == TrimStart(s)
\* str::trim.
Trim(s) == TrimEnd(TrimStart(s))

RECURSIVE TrimStartMatches0x(_)
\* str::trim_start_matches("0x"): every repetition of the prefix is removed.
TrimStartMatches0x(s) ==
    IF Len(s) >= 2 /\ s[1] = "0" /\ s[2] = "x"
    THEN TrimStartMatches0x(SubSeq(s, 3, Len(s))) ELSE s

\* str::replace(' ', "").
RemoveSpaces(s) == SelectSeq(s, LAMBDA c : c # " ")

\* clean_hex of decode.
CleanHex(s) == RemoveSpaces(TrimStartMatches0x(Trim(s)))

\* The value of one hex digit, either case.
DigitValue(c) ==
    CHOOSE v \in 0..15 : LowerDigits[v + 1] = c \/ UpperDigits[v + 1] = c

\* A variant of HexDecode that accepts upper-case digits only.
HexDecode_UpperOnly(s) ==
    IF \E i \in 1..Len(s) : s[i] \notin {UpperDigits[d] : d \in 1..16}
    THEN Err(InvalidHexChars(s))
    ELSE Ok([i \in 1..(Len(s) \div 2) |->
                DigitValue(s[2 * i - 1]) * 16 + DigitValue(s[2 * i])])

\* hex::decode on a string of even length.
HexDecode(s) ==
    IF \E i \in 1..Len(s) : s[i] \notin HexDigits
    THEN Err(InvalidHexChars(s))
    ELSE Ok([i \in 1..(Len(s) \div 2) |->
                DigitValue(s[2 * i - 1]) * 16 + DigitValue(s[2 * i])])

\* A variant of hex_to_bytes without the parity check: a trailing odd digit is
\* dropped.
hex_to_bytes_NoOddCheck(hex_str) == HexDecode(hex_str)
hex_to_bytes(hex_str) ==
    IF Len(hex_str) % 2 # 0 THEN Err(InvalidHexOdd(Len(hex_str)))
    ELSE HexDecode(hex_str)

\* RuuviData::V5(data), RuuviData::V6(data), RuuviData::E1(data).
RuuviData(variant, data) == [variant |-> variant, data |-> data]
\* Ok(RuuviData::X(x::decode(bytes)?)).
Wrap(variant, r) == IF IsOk(r) THEN Ok(RuuviData(variant, r.value)) ELSE r

\* A variant of Dispatch whose default arm tries the Format 5 decoder.
Dispatch_DefaultV5(b) ==
    CASE At(b, 0) = 6 -> Wrap("V6", V6Decode(b))
      [] At(b, 0) = 225 -> Wrap("E1", E1Decode(b))
      [] OTHER -> Wrap("V5", V5Decode(b))
\* The match on bytes[0] shared by decode and RuuviData::decode.
Dispatch(b) ==
    CASE At(b, 0) = 5 -> Wrap("V5", V5Decode(b))
      [] At(b, 0) = 6 -> Wrap("V6", V6Decode(b))
      [] At(b, 0) = 225 -> Wrap("E1", E1Decode(b))
      [] OTHER -> Err(UnsupportedFormat(At(b, 0)))

\* The lines a dispatch writes to standard output.
DispatchPrinted(b) == IF At(b, 0) = 6 THEN V6Printed(b) ELSE <<>>

\* decode(hex_data) of lib.rs.
Decode(s) ==
    LET parsed == hex_to_bytes(CleanHex(s)) IN
    IF IsErr(parsed) THEN parsed
    ELSE IF parsed.value = <<>> THEN Err(InvalidLengthText("Empty data"))
    ELSE Dispatch(parsed.value)

DecodePrinted(s) ==
    LET parsed == hex_to_bytes(CleanHex(s)) IN
    IF IsErr(parsed) \/ parsed.value = <<>> THEN <<>>
    ELSE DispatchPrinted(parsed.value)

\* char::to_uppercase, over the characters the model's inputs use.
ToUpperChar(c) ==
    CASE c = "a" -> "A" [] c = "b" -> "B" [] c = "c" -> "C" [] c = "d" -> "D"
      [] c = "e" -> "E" [] c = "f" -> "F" [] c = "g" -> "G" [] c = "x" -> "X"
      [] OTHER -> c
\* str::to_uppercase.
ToUppercase(s) == [i \in 1..Len(s) |-> ToUpperChar(s[i])]

\* char::is_ascii_hexdigit.
IsAsciiHexDigit(c) == c \in HexDigits

\* s has pattern at the 0-based index i.
MatchesAt(s, pattern, i) ==
    /\ i + Len(pattern) <= Len(s)
    /\ SubSeq(s, i + 1, i + Len(pattern)) = pattern
\* str::find(pattern): the index of the first match, as an Option.
Find(s, pattern) ==
    IF \E i \in 0..Len(s) : MatchesAt(s, pattern, i)
    THEN Some(CHOOSE i \in 0..Len(s) :
                  /\ MatchesAt(s, pattern, i)
                  /\ \A j \in 0..(i - 1) : ~MatchesAt(s, pattern, j))
    ELSE None

\* The manufacturer-id patterns, in the order the loop tries them.
BlePatterns == << <<"9", "9", "0", "4">>, <<"0", "4", "9", "9">> >>

RECURSIVE ExtractLoop_AnyPosition(_, _)
\* A variant of ExtractLoop that takes the first match wherever it starts.
ExtractLoop_AnyPosition(clean_data, patterns) ==
    IF patterns = <<>> THEN None
    ELSE LET found == Find(clean_data, Head(patterns)) IN
         IF IsSome(found) /\ Unwrap(found) + 4 <= Len(clean_data)
         THEN Some(SubSeq(clean_data, Unwrap(found) + 4 + 1, Len(clean_data)))
         ELSE ExtractLoop_AnyPosition(clean_data, Tail(patterns))

RECURSIVE ExtractLoop(_, _)
\* The for loop of extract_ruuvi_from_ble over the patterns still to try.
ExtractLoop(clean_data, patterns) ==
    IF patterns = <<>> THEN None
    ELSE LET found == Find(clean_data, Head(patterns))
             payload_start == Unwrap(found) + 4
         IN  IF IsSome(found) /\ Unwrap(found) = 0 /\ payload_start <= Len(clean_data)
             THEN Some(SubSeq(clean_data, payload_start + 1, Len(clean_data)))
             ELSE ExtractLoop(clean_data, Tail(patterns))

\* extract_ruuvi_from_ble(ble_data) of lib.rs.
extract_ruuvi_from_ble(s) ==
    LET clean_data == ToUppercase(Trim(s)) IN
    IF \E i \in 1..Len(clean_data) : ~IsAsciiHexDigit(clean_data[i]) THEN None
    ELSE ExtractLoop(clean_data, BlePatterns)

---------------------------------------------------------------------------
(* ruuvi_data.rs: the byte-level entry points                              *)

\* A variant of RuuviData::decode without the arm for 0xE1.
RuuviDataDecode_NoE1(data) ==
    IF data = <<>>
    THEN Panic("index out of bounds: the len is 0 but the index is 0")
    ELSE IF At(data, 0) = 225 THEN Err(UnsupportedFormat(225))
    ELSE Dispatch(data)
\* RuuviData::decode(data): data[0] is read before any length check, so the
\* empty slice panics with an index out of bounds.
RuuviDataDecode(data) ==
    IF data = <<>>
    THEN Panic("index out of bounds: the len is 0 but the index is 0")
    ELSE Dispatch(data)

RuuviDataDecodePrinted(data) == IF data = <<>> THEN <<>> ELSE DispatchPrinted(data)

\* <RuuviData as TryFrom<&[u8]>>::try_from.
TryFrom(value) == RuuviDataDecode(value)

\* A variant of from_u8 that knows the two numbered formats only.
from_u8_Numbered(value) ==
    CASE value = 5 -> Some("V5")
      [] value = 6 -> Some("V6")
      [] OTHER -> None
\* DataFormat::from_u8.
from_u8(value) ==
    CASE value = 5 -> Some("V5")
      [] value = 6 -> Some("V6")
      [] value = 225 -> Some("E1")
      [] OTHER -> None
\* DataFormat::payload_length.
payload_length(self) ==
    CASE self = "V5" -> V5_PAYLOAD_LENGTH
      [] self = "V6" -> V6_PAYLOAD_LENGTH
      [] self = "E1" -> E1_PAYLOAD_LENGTH
\* DataFormat::payload_with_mac_length.
payload_with_mac_length(self) ==
    CASE self = "V5" -> V5_PAYLOAD_WITH_MAC_LENGTH
      [] self = "V6" -> V6_PAYLOAD_WITH_MAC_LENGTH
      [] self = "E1" -> E1_PAYLOAD_WITH_MAC_LENGTH

---------------------------------------------------------------------------
(* air_quality.rs: the air quality index. pm2_5 is in ten-thousandths as in *)
(* the records; the distances and the index are in hundredths, the index    *)
(* being returned in ten-thousandths like every other real number.          *)

AQI_MAX == 100
PM25_MAX == 60
PM25_MIN == 0
CO2_MAX == 2300
CO2_MIN == 420

\* f64::clamp.
Clamp(x, lo, hi) == IF x < lo THEN lo ELSE IF x > hi THEN hi ELSE x

\* The largest r in lo..hi with r * r <= n.
RECURSIVE SqrtBetween(_, _, _)
SqrtBetween(n, lo, hi) ==
    IF lo = hi THEN lo
    ELSE LET mid == (lo + hi + 1) \div 2 IN
         IF mid * mid <= n THEN SqrtBetween(n, mid, hi)
         ELSE SqrtBetween(n, lo, mid - 1)
\* f64::hypot of two distances in hundredths, rounded down to a hundredth.
Hypot(dx, dy) == SqrtBetween(dx * dx + dy * dy, 0, 20000)

\* A variant of calc_aqi that does not raise a low co2 to CO2_MIN.
calc_aqi_NoFloor(pm2_5, co2) ==
    LET pm == Clamp(pm2_5, PM25_MIN * 10000, PM25_MAX * 10000)
        c == IF co2 > CO2_MAX THEN CO2_MAX ELSE co2
        dx == ((pm - PM25_MIN * 10000) * AQI_MAX) \div ((PM25_MAX - PM25_MIN) * 100)
        dy == ((c - CO2_MIN) * AQI_MAX * 100) \div (CO2_MAX - CO2_MIN)
        r == Hypot(dx, dy)
    IN  Clamp(AQI_MAX * 100 - r, 0, AQI_MAX * 100) * 100
\* calc_aqi(pm2_5, co2).
calc_aqi(pm2_5, co2) ==
    LET pm == Clamp(pm2_5, PM25_MIN * 10000, PM25_MAX * 10000)
        c == Clamp(co2, CO2_MIN, CO2_MAX)
        dx == ((pm - PM25_MIN * 10000) * AQI_MAX) \div ((PM25_MAX - PM25_MIN) * 100)
        dy == ((c - CO2_MIN) * AQI_MAX * 100) \div (CO2_MAX - CO2_MIN)
        r == Hypot(dx, dy)
    IN  Clamp(AQI_MAX * 100 - r, 0, AQI_MAX * 100) * 100

\* RuuviData::calculate_air_quality(&self).
calculate_air_quality(self) ==
    CASE self.variant = "V5" -> None
      [] OTHER ->
           IF IsSome(self.data.pm2_5) /\ IsSome(self.data.co2)
           THEN Some(calc_aqi(Unwrap(self.data.pm2_5), Unwrap(self.data.co2)))
           ELSE None

---------------------------------------------------------------------------
(* The inputs: the byte buffers of the crate's tests, one field of a buffer  *)
(* overwritten, a buffer truncated or padded, and the hex text of a buffer   *)
(* in the presentations decode() accepts or rejects.                         *)

\* v5.rs test_decode_valid_data: 24 bytes.
V5_VALID ==
    <<5, 18, 252, 83, 148, 195, 124, 0, 4, 255, 252, 4, 12, 172, 54, 66, 0, 205, 203, 184,
      51, 76, 136, 79>>
\* v5.rs test_decode_maximum_values: 24 bytes.
V5_MAXIMUM ==
    <<5, 127, 255, 255, 254, 255, 254, 127, 255, 127, 255, 127, 255, 255, 222, 254, 255, 254, 203, 184,
      51, 76, 136, 79>>
\* v5.rs test_decode_minimum_values: 24 bytes.
V5_MINIMUM ==
    <<5, 128, 1, 0, 0, 0, 0, 128, 1, 128, 1, 128, 1, 0, 0, 0, 0, 0, 203, 184,
      51, 76, 136, 79>>
\* v5.rs test_decode_invalid_values: 24 bytes.
V5_INVALID ==
    <<5, 128, 0, 255, 255, 255, 255, 128, 0, 128, 0, 128, 0, 255, 255, 255, 255, 255, 255, 255,
      255, 255, 255, 255>>
\* v6.rs test_decode_valid_data: 20 bytes.
V6_VALID ==
    <<6, 23, 12, 86, 104, 199, 158, 0, 112, 0, 201, 5, 1, 217, 255, 205, 0, 76, 136, 79>>
\* v6.rs test_decode_spec_maximum_values: 20 bytes.
V6_MAXIMUM ==
    <<6, 127, 255, 156, 64, 255, 254, 39, 16, 156, 64, 250, 250, 254, 255, 255, 7, 76, 143, 79>>
\* v6.rs test_decode_spec_minimum_values: 20 bytes.
V6_MINIMUM ==
    <<6, 128, 1, 0, 0, 0, 0, 0, 0, 0, 0, 0, 0, 0, 0, 0, 0, 76, 136, 79>>
\* every field of v6::decode at its all-ones / 0x8000 pattern: 20 bytes.
V6_SENTINEL ==
    <<6, 128, 0, 255, 255, 255, 255, 255, 255, 255, 255, 255, 255, 255, 255, 255, 255, 255, 255, 255>>
\* e1.rs decode_snapshot valid: 40 bytes.
E1_VALID ==
    <<225, 23, 12, 86, 104, 199, 158, 0, 101, 0, 112, 4, 189, 17, 202, 0, 201, 10, 2, 19,
      224, 172, 0, 0, 0, 222, 205, 238, 16, 0, 0, 0, 0, 0, 203, 184, 51, 76, 136, 79>>
\* e1.rs decode_snapshot maximum: 40 bytes.
E1_MAXIMUM ==
    <<225, 128, 1, 0, 0, 0, 0, 0, 0, 0, 0, 0, 0, 0, 0, 0, 0, 0, 0, 0,
      0, 0, 0, 0, 0, 0, 0, 0, 0, 0, 0, 0, 0, 0, 203, 184, 51, 76, 136, 79>>
\* e1.rs decode_snapshot minimum: 40 bytes.
E1_MINIMUM ==
    <<225, 127, 255, 156, 64, 255, 254, 39, 16, 39, 16, 39, 16, 39, 16, 156, 64, 250, 250, 220,
      40, 240, 0, 0, 0, 255, 255, 254, 63, 0, 0, 0, 0, 0, 203, 184, 51, 76, 136, 79>>
\* every field of e1::decode at its all-ones / 0x8000 pattern: 40 bytes.
E1_SENTINEL ==
    <<225, 128, 0, 255, 255, 255, 255, 255, 255, 255, 255, 255, 255, 255, 255, 255, 255, 255, 255, 255,
      255, 255, 255, 255, 255, 255, 255, 255, 255, 255, 255, 255, 255, 255, 255, 255, 255, 255, 255, 255>>
\* lib.rs test_unsupported_format: 25 bytes.
UNSUPPORTED ==
    <<99, 0, 0, 0, 0, 0, 0, 0, 0, 0, 0, 0, 0, 0, 0, 0, 0, 0, 0, 0,
      0, 0, 0, 0, 0>>

\* The buffers whose fields are overwritten.
EditedVectors == {V5_VALID, V5_INVALID, V6_MAXIMUM, V6_SENTINEL, E1_MINIMUM, E1_SENTINEL}
\* The buffers that are resized and presented as text.
PresentedVectors ==
    {V5_VALID, V5_INVALID, V6_VALID, V6_SENTINEL, E1_VALID, E1_SENTINEL, UNSUPPORTED}
\* Every buffer an input starts from.
TestVectors ==
    {V5_VALID, V5_MAXIMUM, V5_MINIMUM, V5_INVALID, V6_VALID, V6_MAXIMUM, V6_MINIMUM,
     V6_SENTINEL, E1_VALID, E1_MAXIMUM, E1_MINIMUM, E1_SENTINEL, UNSUPPORTED}

\* The 16-bit words written over a field: the sentinels 0x8000 and 0xFFFF and
\* their neighbours, the range limits 40000 and 10000 of v6::decode and their
\* successors, the gas-index byte 0xFA/0xFB, and the flag bits 6 and 7.
EditWords ==
    {0, 1, 32767, 32768, 32769, 40000, 40001, 10000, 10001,
     64000, 64255, 64511, 65534, 65535, 16639, 33023, 49152}
\* The power words written over bytes 13-14 of a Format 5 buffer: the battery
\* codes 0, 1, 86, 1023, 2046 and 2047 with the power codes 0, 1, 3, 15, 16, 30
\* and 31.
PowerWords ==
    {battery * 32 + tx : battery \in {0, 1, 86, 1023, 2046, 2047},
                         tx \in {0, 1, 3, 15, 16, 30, 31}}
\* The values written over the format identifier (byte 0).
EditFormats == {0, 5, 6, 99, 225, 255}

\* b with the big-endian word w written at Rust index p (one byte at the end).
EditWord(b, p, w) ==
    [i \in 1..Len(b) |->
        IF i = p + 1 THEN w \div 256
        ELSE IF i = p + 2 THEN w % 256
        ELSE b[i]]
\* b with its byte at Rust index p replaced by v.
EditByte(b, p, v) == [i \in 1..Len(b) |-> IF i = p + 1 THEN v ELSE b[i]]

Resizes == {"keep", "truncate", "pad", "empty"}
\* A buffer truncated by one byte, padded by one byte, or emptied.
Resize(b, how) ==
    CASE how = "truncate" -> SubSeq(b, 1, Len(b) - 1)
      [] how = "pad" -> Append(b, 0)
      [] how = "empty" -> <<>>
      [] OTHER -> b

RECURSIVE HexText(_, _)
\* The hex text of a buffer, two digits a byte, in the given digits.
HexText(b, digits) ==
    IF b = <<>> THEN <<>>
    ELSE <<digits[(Head(b) \div 16) + 1], digits[(Head(b) % 16) + 1]>>
         \o HexText(Tail(b), digits)

RECURSIVE Spaced(_)
\* A space after every character of s.
Spaced(s) == IF s = <<>> THEN <<>> ELSE <<Head(s), " ">> \o Spaced(Tail(s))

Styles ==
    {"upper", "lower", "0x", "0x0x", "0X", "trimmed", "spaced", "tab",
     "odd", "nonhex", "oddnonhex", "0xlower", "padded0x"}
\* The text handed to decode() for buffer b.
Present(b, style) ==
    LET up == HexText(b, UpperDigits) IN
    CASE style = "lower" -> HexText(b, LowerDigits)
      [] style = "0x" -> <<"0", "x">> \o up
      [] style = "0x0x" -> <<"0", "x", "0", "x">> \o up
      [] style = "0X" -> <<"0", "X">> \o up
      [] style = "trimmed" -> <<" ", "\t">> \o up \o <<"\n">>
      [] style = "spaced" -> Spaced(up)
      [] style = "tab" -> up \o <<"\t">> \o up
      [] style = "odd" -> up \o <<"5">>
      [] style = "nonhex" -> up \o <<"G", "G">>
      [] style = "oddnonhex" -> up \o <<"G">>
      [] style = "0xlower" -> <<"0", "x">> \o HexText(b, LowerDigits)
      [] style = "padded0x" -> <<"\n", " ", "0", "x", " ">> \o Spaced(up) \o <<"\r">>
      [] OTHER -> up

BleStyles ==
    {"9904", "0499", "9904lower", "0499lower", "9904trimmed", "0499then9904",
     "9904twice", "shifted", "later", "bare", "short", "odd", "nonhex", "spaced",
     "0x9904", "blank"}
\* The advertisement text handed to extract_ruuvi_from_ble for buffer b.
Advertise(b, style) ==
    LET up == HexText(b, UpperDigits)
        low == HexText(b, LowerDigits)
        m9904 == <<"9", "9", "0", "4">>
        m0499 == <<"0", "4", "9", "9">>
    IN  CASE style = "0499" -> m0499 \o up
          [] style = "9904lower" -> m9904 \o low
          [] style = "0499lower" -> m0499 \o low
          [] style = "9904trimmed" -> <<" ", "\t">> \o m9904 \o low \o <<"\n">>
          [] style = "0499then9904" -> m0499 \o m9904 \o up
          [] style = "9904twice" -> m9904 \o up \o m9904
          [] style = "shifted" -> <<"9">> \o m9904 \o up
          [] style = "later" -> <<"0", "2", "0", "1">> \o m0499 \o up
          [] style = "bare" -> up
          [] style = "short" -> <<"9", "9", "0">>
          [] style = "odd" -> m9904 \o up \o <<"5">>
          [] style = "nonhex" -> m9904 \o up \o <<"G">>
          [] style = "spaced" -> m9904 \o <<" ">> \o up
          [] style = "0x9904" -> <<"0", "x">> \o m9904 \o up
          [] style = "blank" -> <<" ", "\n">>
          [] OTHER -> m9904 \o up

\* The Variant B test vector with every luminosity code in byte 13.
LuminosityInputs == {EditByte(V6_VALID, 13, c) : c \in 0..255}

\* The inputs with one field overwritten: the hex text is the plain upper-case
\* rendering of the buffer.
FieldInputs ==
    {EditWord(b, p, w) : b \in EditedVectors, p \in 1..39, w \in EditWords}
    \cup {EditWord(b, 13, w) : b \in {V5_VALID, V5_INVALID}, w \in PowerWords}
    \cup LuminosityInputs
    \cup TestVectors
\* The inputs with the identifier replaced and the length changed.
ShapeInputs ==
    {Resize(EditByte(b, 0, f), how) :
        b \in PresentedVectors, f \in EditFormats, how \in Resizes}
    \cup {Resize(b, how) : b \in PresentedVectors, how \in Resizes}
\* The buffers wrapped into an advertisement in every style.
AdvertisedInputs == {Resize(b, how) : b \in PresentedVectors, how \in Resizes}

---------------------------------------------------------------------------
(* The state machine: an input is fixed, then entry points are called on it *)

\* The threads of a multi-threaded caller.
Threads == {"t1", "t2"}
\* A thread that is in no call and has made none.
IdleThread == [pc |-> "idle", op |-> "none", input |-> <<>>, result |-> [tag |-> "None"], done |-> 0]
\* The caller has one thread: no other thread exists.
SingleThreaded == threads = [t \in Threads |-> IdleThread]

\* No call has been made.
NoCallYet ==
    /\ call = "none"
    /\ result = [tag |-> "None"]
    /\ stdout = <<>>
    /\ calls = 0

Init ==
    /\ \/ /\ bytes \in FieldInputs
          /\ hex_data = Present(bytes, "upper")
       \/ /\ bytes \in ShapeInputs
          /\ \E style \in Styles : hex_data = Present(bytes, style)
    /\ ble_data = <<>>
    /\ SingleThreaded
    /\ NoCallYet

\* One call of an entry point: its return value and what it printed.
Call(name, r, printed) ==
    /\ calls < MaxCalls
    /\ ~IsPanic(result)
    /\ call' = name
    /\ result' = r
    /\ stdout' = stdout \o printed
    /\ calls' = calls + 1
    /\ UNCHANGED <<hex_data, ble_data, bytes, threads>>

CallDecode == Call("decode", Decode(hex_data), DecodePrinted(hex_data))
CallRuuviDataDecode ==
    Call("RuuviData::decode", RuuviDataDecode(bytes), RuuviDataDecodePrinted(bytes))
CallTryFrom == Call("RuuviData::try_from", TryFrom(bytes), RuuviDataDecodePrinted(bytes))
CallV5Decode == Call("v5::decode", V5Decode(bytes), <<>>)
CallV6Decode == Call("v6::decode", V6Decode(bytes), V6Printed(bytes))
CallE1Decode == Call("e1::decode", E1Decode(bytes), <<>>)
CallExtract ==
    Call("extract_ruuvi_from_ble", Returned(extract_ruuvi_from_ble(ble_data)), <<>>)
\* decode(&extract_ruuvi_from_ble(ble_data).expect(..)): the payload found in an
\* advertisement is handed to decode.
CallDecodeExtracted ==
    LET extracted == extract_ruuvi_from_ble(ble_data) IN
    /\ IsSome(extracted)
    /\ Call("decode(extract_ruuvi_from_ble)",
            Decode(Unwrap(extracted)), DecodePrinted(Unwrap(extracted)))

Next ==
    \/ CallDecode
    \/ CallRuuviDataDecode
    \/ CallTryFrom
    \/ CallV5Decode
    \/ CallV6Decode
    \/ CallE1Decode

Spec == Init /\ [][Next]_vars

---------------------------------------------------------------------------
(* The state machine of a payload that arrives inside an advertisement: the *)
(* caller holds the advertisement text, the payload text and the bytes, and *)
(* calls any entry point, extract_ruuvi_from_ble included.                  *)

InitBle ==
    /\ bytes \in AdvertisedInputs
    /\ hex_data = Present(bytes, "upper")
    /\ \E style \in BleStyles : ble_data = Advertise(bytes, style)
    /\ SingleThreaded
    /\ NoCallYet

NextBle ==
    \/ CallDecode
    \/ CallRuuviDataDecode
    \/ CallTryFrom
    \/ CallV5Decode
    \/ CallV6Decode
    \/ CallE1Decode
    \/ CallExtract
    \/ CallDecodeExtracted

SpecBle == InitBle /\ [][NextBle]_vars

---------------------------------------------------------------------------
(* The state machine of a caller that consults the format registry: it      *)
(* holds a buffer, asks DataFormat about the buffer's first byte and hands  *)
(* the buffer to the dispatchers.                                           *)

\* The buffers: every first byte on the Variant B test vector, the
\* identifiers on the other test vectors, and the test vectors one byte
\* shorter and longer.
RegistryInputs ==
    {EditByte(V6_VALID, 0, f) : f \in 0..255}
    \cup {EditByte(b, 0, f) : b \in {V5_VALID, E1_VALID}, f \in EditFormats}
    \cup {Resize(b, how) : b \in {V5_VALID, V6_VALID, E1_VALID},
                            how \in {"truncate", "pad"}}

InitRegistry ==
    /\ bytes \in RegistryInputs
    /\ hex_data = Present(bytes, "upper")
    /\ ble_data = <<>>
    /\ SingleThreaded
    /\ NoCallYet

\* DataFormat::from_u8(bytes[0]).
CallFromU8 ==
    /\ bytes # <<>>
    /\ Call("DataFormat::from_u8", Returned(from_u8(At(bytes, 0))), <<>>)
\* DataFormat::from_u8(bytes[0]).map(|f| f.payload_length()), for a
\* registered first byte.
CallPayloadLength ==
    /\ bytes # <<>>
    /\ IsSome(from_u8(At(bytes, 0)))
    /\ Call("DataFormat::payload_length",
            Returned(payload_length(Unwrap(from_u8(At(bytes, 0))))), <<>>)
CallPayloadWithMacLength ==
    /\ bytes # <<>>
    /\ IsSome(from_u8(At(bytes, 0)))
    /\ Call("DataFormat::payload_with_mac_length",
            Returned(payload_with_mac_length(Unwrap(from_u8(At(bytes, 0))))), <<>>)

NextRegistry ==
    \/ CallDecode
    \/ CallRuuviDataDecode
    \/ CallFromU8
    \/ CallPayloadLength
    \/ CallPayloadWithMacLength

SpecRegistry == InitRegistry /\ [][NextRegistry]_vars

---------------------------------------------------------------------------
(* The state machine of a caller that rates the air: it decodes a buffer    *)
(* with a dispatcher and asks the record for its air quality index.         *)

\* The raw PM2.5 words: the ends of the index's scale (0 and 60.0), the
\* midpoint, the decoders' limits and sentinels.
Pm25Words == {0, 1, 112, 300, 599, 600, 601, 10000, 10001, 65534, 65535}
\* The raw CO2 words, likewise (420 and 2300 are the ends of the scale).
Co2Words == {0, 201, 419, 420, 421, 1360, 2299, 2300, 2301, 40000, 40001, 65534, 65535}
\* The buffers: the Variant B and C test vectors with every pair of these
\* words (PM2.5 in bytes 7-8 and CO2 in bytes 9-10 of Variant B, bytes 9-10
\* and 15-16 of Variant C), and the Variant A test vectors.
AirQualityInputs ==
    {EditWord(EditWord(V6_VALID, 7, pm), 9, co2) : pm \in Pm25Words, co2 \in Co2Words}
    \cup {EditWord(EditWord(E1_VALID, 9, pm), 15, co2) : pm \in Pm25Words, co2 \in Co2Words}
    \cup {V5_VALID, V5_INVALID, V5_MAXIMUM, V5_MINIMUM}

InitAirQuality ==
    /\ bytes \in AirQualityInputs
    /\ hex_data = Present(bytes, "upper")
    /\ ble_data = <<>>
    /\ SingleThreaded
    /\ NoCallYet

\* data.calculate_air_quality(), for the record a dispatcher has returned.
CallCalculateAirQuality ==
    /\ call \in {"decode", "RuuviData::decode", "RuuviData::try_from"}
    /\ IsOk(result)
    /\ Call("RuuviData::calculate_air_quality",
            Returned(calculate_air_quality(result.value)), <<>>)

NextAirQuality ==
    \/ CallDecode
    \/ CallRuuviDataDecode
    \/ CallTryFrom
    \/ CallCalculateAirQuality

SpecAirQuality == InitAirQuality /\ [][NextAirQuality]_vars

---------------------------------------------------------------------------
(* The state machine of a multi-threaded caller: each thread calls the      *)
(* decoders on inputs of its own, one call after the other, with no         *)
(* synchronization; the threads share the process's standard output. A call *)
(* is entered, writes its line if it is one that prints (println! holds the *)
(* stdout lock for the line), and returns.                                  *)

\* The number of calls one thread makes.
MaxThreadCalls == 2

\* The decode operations a thread calls.
ThreadOps == {"decode", "v5::decode", "v6::decode", "e1::decode", "extract_ruuvi_from_ble"}
\* The buffers a thread calls them on.
ThreadInputs ==
    {V5_VALID, V6_VALID, V6_MAXIMUM, E1_VALID, Resize(V6_VALID, "truncate")}

\* What the operation op returns for the buffer b: decode is handed its hex
\* text, extract_ruuvi_from_ble that text behind the marker.
ResultOf(op, b) ==
    CASE op = "decode" -> Decode(HexText(b, UpperDigits))
      [] op = "v5::decode" -> V5Decode(b)
      [] op = "v6::decode" -> V6Decode(b)
      [] op = "e1::decode" -> E1Decode(b)
      [] op = "extract_ruuvi_from_ble" -> Returned(extract_ruuvi_from_ble(Advertise(b, "9904")))
\* The lines it writes to standard output.
PrintedOf(op, b) ==
    CASE op = "decode" -> DecodePrinted(HexText(b, UpperDigits))
      [] op = "v6::decode" -> V6Printed(b)
      [] OTHER -> <<>>

InitThreads ==
    /\ threads = [t \in Threads |-> IdleThread]
    /\ hex_data = <<>>
    /\ ble_data = <<>>
    /\ bytes = <<>>
    /\ NoCallYet

\* Thread t enters the operation op with an input of its own.
Enter(t, op) ==
    /\ threads[t].pc \in {"idle", "returned"}
    /\ threads[t].done < MaxThreadCalls
    /\ \E b \in ThreadInputs :
           threads' = [threads EXCEPT ![t] =
                          [pc |-> "entered", op |-> op, input |-> b,
                           result |-> [tag |-> "None"], done |-> @.done]]
    /\ UNCHANGED <<hex_data, ble_data, bytes, call, result, stdout, calls>>

\* Thread t, inside v6::decode, writes its line to standard output.
PrintLine(t) ==
    /\ threads[t].pc = "entered"
    /\ PrintedOf(threads[t].op, threads[t].input) # <<>>
    /\ stdout' = stdout \o PrintedOf(threads[t].op, threads[t].input)
    /\ threads' = [threads EXCEPT ![t].pc = "printed"]
    /\ UNCHANGED <<hex_data, ble_data, bytes, call, result, calls>>

\* Thread t returns from its call.
Return(t) ==
    /\ \/ threads[t].pc = "printed"
       \/ /\ threads[t].pc = "entered"
          /\ PrintedOf(threads[t].op, threads[t].input) = <<>>
    /\ threads' = [threads EXCEPT
                      ![t].pc = "returned",
                      ![t].result = ResultOf(threads[t].op, threads[t].input),
                      ![t].done = @ + 1]
    /\ UNCHANGED <<hex_data, ble_data, bytes, call, result, stdout, calls>>

EnterDecode == \E t \in Threads : Enter(t, "decode")
EnterV5Decode == \E t \in Threads : Enter(t, "v5::decode")
EnterV6Decode == \E t \in Threads : Enter(t, "v6::decode")
EnterE1Decode == \E t \in Threads : Enter(t, "e1::decode")
EnterExtract == \E t \in Threads : Enter(t, "extract_ruuvi_from_ble")
ThreadPrints == \E t \in Threads : PrintLine(t)
ThreadReturns == \E t \in Threads : Return(t)

NextThreads ==
    \/ EnterDecode
    \/ EnterV5Decode
    \/ EnterV6Decode
    \/ EnterE1Decode
    \/ EnterExtract
    \/ ThreadPrints
    \/ ThreadReturns

SpecThreads == InitThreads /\ [][NextThreads]_vars

---------------------------------------------------------------------------
(* What the properties below read off a state                              *)

\* A string of an even number of hex digits.
ValidHexText(s) == Len(s) % 2 = 0 /\ \A i \in 1..Len(s) : s[i] \in HexDigits
\* The k-th byte (from 1) that a valid hex text denotes.
ByteOf(s, k) == DigitValue(s[2 * k - 1]) * 16 + DigitValue(s[2 * k])
\* The (identifier, total length) pairs of the three formats.
RegisteredShapes == {<<5, 24>>, <<6, 20>>, <<225, 40>>}
RegisteredFormats == {5, 6, 225}
FixedLength(f) == CASE f = 5 -> 24 [] f = 6 -> 20 [] f = 225 -> 40
VariantOf(f) == CASE f = 5 -> "V5" [] f = 6 -> "V6" [] f = 225 -> "E1"
\* The entry points that dispatch on byte 0 of a byte slice.
SliceDispatchers == {"RuuviData::decode", "RuuviData::try_from"}
\* The identifier a per-variant decoder accepts.
OwnFormat(c) == CASE c = "v5::decode" -> 5 [] c = "v6::decode" -> 6 [] c = "e1::decode" -> 225
VariantDecoders == {"v5::decode", "v6::decode", "e1::decode"}
\* The error kinds of a structural violation.
StructuralKinds == {"InvalidHex", "InvalidLength", "UnsupportedFormat"}
\* The two's-complement reading of an unsigned 16-bit word.
Signed16(u) == IF u < 32768 THEN u ELSE u - 65536
\* The unsigned big-endian word at Rust indices i, i + 1 of b.
Word(b, i) == b[i + 1] * 256 + b[i + 2]
\* The record a successful call returned, whichever entry point made it.
Record == IF call \in VariantDecoders THEN result.value ELSE result.value.data
\* The variant of that record.
RecordVariant ==
    IF call \in VariantDecoders THEN VariantOf(OwnFormat(call)) ELSE result.value.variant
\* The bytes that record was decoded from.
RecordBytes ==
    CASE call = "decode" -> hex_to_bytes(CleanHex(hex_data)).value
      [] call = "decode(extract_ruuvi_from_ble)" ->
           hex_to_bytes(CleanHex(Unwrap(extract_ruuvi_from_ble(ble_data)))).value
      [] OTHER -> bytes

---------------------------------------------------------------------------
C2_UnsupportedCarriesByte ==
    (call = "decode" /\ ValidHexText(CleanHex(hex_data))) =>
        LET clean == CleanHex(hex_data) IN
        (/\ (Len(clean) \div 2) \in {24, 20, 40}
         /\ ByteOf(clean, 1) \notin RegisteredFormats)
        => /\ IsErr(result)
           /\ result.error.kind = "UnsupportedFormat"
           /\ DOMAIN result.error = {"kind", "format"}
           /\ result.error.format = ByteOf(clean, 1)

\* decode rejected a 20-byte buffer whose identifier was replaced by 99.
C2_Witness ==
    /\ call = "decode"
    /\ bytes = EditByte(V6_VALID, 0, 99)
    /\ IsErr(result)
    /\ result.error.kind = "UnsupportedFormat"
    /\ result.error.format = 99

C4_InvalidHexFirst ==
    (call = "decode" /\ ~ValidHexText(CleanHex(hex_data))) =>
        IsErr(result) /\ result.error.kind = "InvalidHex"

\* decode rejected a text that holds a non-hex character and would otherwise
\* denote an unregistered identifier and a length no format has.
C4_Witness ==
    /\ call = "decode"
    /\ Len(CleanHex(hex_data)) % 2 = 0
    /\ bytes # <<>>
    /\ At(bytes, 0) = 99
    /\ Len(bytes) = 26
    /\ IsErr(result)
    /\ result.error.kind = "InvalidHex"

(* C5 as stated: every InvalidLength error of the top-level decode carries  *)
(* the expected and the actual byte count, the one for an input that is     *)
(* empty after normalization included.                                      *)
C5_EveryInvalidLengthHasCounts ==
    (call = "decode" /\ IsErr(result) /\ result.error.kind = "InvalidLength") =>
        {"expected", "actual"} \subseteq DOMAIN result.error

(* C5, amended: an InvalidLength error of the top-level decode carries the  *)
(* expected and the actual byte count when the normalized input is not      *)
(* empty; for an input that is empty after normalization it carries the     *)
(* text "Empty data" and no counts.                                         *)
C5_InvalidLengthPayload ==
    (call = "decode" /\ IsErr(result) /\ result.error.kind = "InvalidLength") =>
        LET clean == CleanHex(hex_data) IN
        IF clean = <<>>
        THEN /\ DOMAIN result.error = {"kind", "msg"}
             /\ result.error.msg = "Empty data"
        ELSE /\ {"expected", "actual"} \subseteq DOMAIN result.error
             /\ result.error.expected = FixedLength(ByteOf(clean, 1))
             /\ result.error.actual = Len(clean) \div 2

\* decode rejected a bare "0x".
C5_Witness ==
    /\ call = "decode"
    /\ hex_data = <<"0", "x">>
    /\ IsErr(result)
    /\ result.error.kind = "InvalidLength"
    /\ result.error.msg = "Empty data"

(* C6: no entry point panics: every call, of decode on any text and of      *)
(* RuuviData::decode, RuuviData::try_from, v5::decode, v6::decode and       *)
(* e1::decode on any slice, the empty one included, returns Ok or a typed   *)
(* error.                                                                   *)
C6_NoPanic ==
    call # "none" =>
        \/ IsOk(result)
        \/ IsErr(result) /\ result.error.kind \in DecodeErrorKinds
        \/ call = "extract_ruuvi_from_ble" /\ result.tag = "Returned"

---------------------------------------------------------------------------
(* The raw encodings of the optional fields, by byte position               *)

\* Bit 6 and bit 7 of a flags byte.
Bit6(flags) == (flags \div 64) % 2
Bit7(flags) == (flags \div 128) % 2
\* The 9-bit gas index assembled from a data byte and a flag bit.
Raw9(byte, bit) == byte * 2 + bit
\* The unsigned 24-bit big-endian value at Rust indices i..i + 2 of b.
Word24(b, i) == b[i + 1] * 65536 + b[i + 2] * 256 + b[i + 3]

\* For each optional field of a variant, whether its raw encoding in b is the
\* field's sentinel: 0x8000 for a signed word, all ones for an unsigned field.
IsSentinel(variant, b) ==
    CASE variant = "V5" ->
           [temperature |-> Word(b, 1) = 32768,
            humidity |-> Word(b, 3) = 65535,
            pressure |-> Word(b, 5) = 65535,
            acceleration_x |-> Word(b, 7) = 32768,
            acceleration_y |-> Word(b, 9) = 32768,
            acceleration_z |-> Word(b, 11) = 32768,
            battery_voltage |-> Word(b, 13) \div 32 = 2047,
            tx_power |-> Word(b, 13) % 32 = 31,
            movement_counter |-> At(b, 15) = 255,
            measurement_sequence |-> Word(b, 16) = 65535]
      [] variant = "V6" ->
           [temperature |-> Word(b, 1) = 32768,
            humidity |-> Word(b, 3) = 65535,
            pressure |-> Word(b, 5) = 65535,
            pm2_5 |-> Word(b, 7) = 65535,
            co2 |-> Word(b, 9) = 65535,
            voc_index |-> Raw9(At(b, 11), Bit6(At(b, 16))) = 511,
            nox_index |-> Raw9(At(b, 12), Bit7(At(b, 16))) = 511,
            luminosity |-> At(b, 13) = 255,
            reserved |-> At(b, 14) = 255,
            measurement_sequence |-> At(b, 15) = 255]
      [] variant = "E1" ->
           [temperature |-> Word(b, 1) = 32768,
            humidity |-> Word(b, 3) = 65535,
            pressure |-> Word(b, 5) = 65535,
            pm1_0 |-> Word(b, 7) = 65535,
            pm2_5 |-> Word(b, 9) = 65535,
            pm4_0 |-> Word(b, 11) = 65535,
            pm10_0 |-> Word(b, 13) = 65535,
            co2 |-> Word(b, 15) = 65535,
            voc_index |-> Raw9(At(b, 17), Bit6(At(b, 28))) = 511,
            nox_index |-> Raw9(At(b, 18), Bit7(At(b, 28))) = 511,
            luminosity |-> Word24(b, 19) = 16777215,
            measurement_sequence |-> Word24(b, 25) = 16777215]

\* IsSentinel with the fields that are not decided by a sentinel replaced by
\* what decides them: a range limit, or nothing (the field is always present).
IsAbsent(variant, b) ==
    CASE variant = "V5" -> IsSentinel("V5", b)
      [] variant = "V6" ->
           [IsSentinel("V6", b) EXCEPT
               !.humidity = Word(b, 3) > 40000,
               !.pm2_5 = Word(b, 7) > 10000,
               !.co2 = Word(b, 9) > 40000,
               !.voc_index = Raw9(At(b, 11), Bit6(At(b, 16))) > 500,
               !.nox_index = Raw9(At(b, 12), Bit7(At(b, 16))) > 500,
               !.reserved = FALSE,
               !.measurement_sequence = FALSE]
      [] variant = "E1" ->
           [IsSentinel("E1", b) EXCEPT
               !.voc_index = Raw9(At(b, 17), Bit6(At(b, 28))) > 500,
               !.nox_index = Raw9(At(b, 18), Bit7(At(b, 28))) > 500]

\* A call returned a record.
Decoded == call # "none" /\ IsOk(result)
\* Every optional field of b holds its sentinel.
AllSentinel(variant, b) ==
    \A f \in DOMAIN IsSentinel(variant, b) : IsSentinel(variant, b)[f]

(* C8 as stated: in every record of the three decoders each optional field  *)
(* is None exactly when its raw encoding is the field's sentinel; none is   *)
(* None by a range comparison and none is always present.                   *)
C8_NoneIffSentinel ==
    Decoded =>
        LET sentinel == IsSentinel(RecordVariant, RecordBytes) IN
        \A f \in DOMAIN sentinel : IsNone(Record[f]) <=> sentinel[f]

(* C8, amended: each optional field is None exactly when its raw encoding   *)
(* is the field's sentinel, except that in Variant B humidity is None       *)
(* exactly when raw > 40000, pm2_5 when raw > 10000 and co2 when raw >      *)
(* 40000, in Variants B and C voc_index and nox_index are None exactly when *)
(* the 9-bit value is above 500, and Variant B's reserved and               *)
(* measurement_sequence are always present.                                 *)
C8_NoneIffSentinelOrRange ==
    Decoded =>
        LET absent == IsAbsent(RecordVariant, RecordBytes) IN
        \A f \in DOMAIN absent : IsNone(Record[f]) <=> absent[f]

\* v6::decode dropped a humidity of 40001 raw units, which is no sentinel, and
\* kept the reserved byte.
C8_Witness ==
    /\ call = "v6::decode"
    /\ IsOk(result)
    /\ Word(bytes, 3) = 40001
    /\ IsNone(result.value.humidity)
    /\ IsSome(result.value.reserved)

(* C9 as stated: for each variant a buffer of the right size whose every    *)
(* field holds its sentinel decodes to a record in which every Option field *)
(* is None.                                                                 *)
C9_AllSentinelAllNone ==
    (Decoded /\ AllSentinel(RecordVariant, RecordBytes)) =>
        \A f \in DOMAIN IsSentinel(RecordVariant, RecordBytes) : IsNone(Record[f])

(* C9, amended: for each variant a buffer of the right size whose every     *)
(* field holds its sentinel decodes to a record in which every Option field *)
(* is None, except Variant B's reserved and measurement_sequence, which are *)
(* present and hold their raw byte, 255.                                    *)
C9_AllSentinelNoneButRawBytes ==
    (Decoded /\ AllSentinel(RecordVariant, RecordBytes)) =>
        \A f \in DOMAIN IsSentinel(RecordVariant, RecordBytes) :
            IF RecordVariant = "V6" /\ f \in {"reserved", "measurement_sequence"}
            THEN Record[f] = Some(255)
            ELSE IsNone(Record[f])

\* v6::decode decoded the all-sentinel Variant B buffer.
C9_Witness ==
    /\ call = "v6::decode"
    /\ bytes = V6_SENTINEL
    /\ IsOk(result)
    /\ IsNone(result.value.luminosity)
    /\ IsNone(result.value.voc_index)
    /\ result.value.reserved = Some(255)
    /\ result.value.measurement_sequence = Some(255)

C11_PowerInfo ==
    (Decoded /\ RecordVariant = "V5") =>
        LET w == Word(RecordBytes, 13)
            battery == w \div 32
            tx == w % 32
            r == Record
        IN  /\ IsNone(r.battery_voltage) <=> battery = 2047
            /\ IsSome(r.battery_voltage) =>
                   /\ Unwrap(r.battery_voltage) = battery + 1600
                   /\ Unwrap(r.battery_voltage) \in 1600..3646
            /\ IsNone(r.tx_power) <=> tx = 31
            /\ IsSome(r.tx_power) =>
                   /\ 2 * tx \in -128..127
                   /\ -40 + 2 * tx \in -128..127
                   /\ Unwrap(r.tx_power) = -40 + 2 * tx
                   /\ Unwrap(r.tx_power) \in -40..20
                   /\ Unwrap(r.tx_power) % 2 = 0

\* v5::decode read the power word 0xFFFE: no battery voltage, and the largest
\* transmit power.
C11_Witness ==
    /\ call = "v5::decode"
    /\ IsOk(result)
    /\ Word(bytes, 13) = 65534
    /\ IsNone(result.value.battery_voltage)
    /\ result.value.tx_power = Some(20)

\* The battery voltage is present and the transmit power is not.
C11_WitnessIndependent ==
    /\ call = "v5::decode"
    /\ IsOk(result)
    /\ Word(bytes, 13) = 2046 * 32 + 31
    /\ result.value.battery_voltage = Some(3646)
    /\ IsNone(result.value.tx_power)

---------------------------------------------------------------------------
(* The hardware address                                                    *)

\* The characters 0-9 and a-f.
LowerHexChars == {LowerDigits[i] : i \in 1..16}
\* The number of trailing address bytes of a variant.
MacBytes(variant) == CASE variant = "V5" -> 6 [] variant = "V6" -> 3 [] variant = "E1" -> 6
\* The trailing address bytes of the buffer a record was decoded from.
MacTail(variant, b) == SubSeq(b, Len(b) - MacBytes(variant) + 1, Len(b))
\* The lowercase hex digits of a byte sequence, written out digit by digit.
LowerHexOf(b) ==
    [i \in 1..(2 * Len(b)) |->
        IF i % 2 = 1 THEN LowerDigits[(b[(i + 1) \div 2] \div 16) + 1]
        ELSE LowerDigits[(b[i \div 2] % 16) + 1]]
\* Every byte of b is 0xFF.
AllFF(b) == \A i \in 1..Len(b) : b[i] = 255

(* C12: in a Variant A record mac_address is the literal "invalid" exactly   *)
(* when all six trailing bytes (18-23) are 0xFF, and is otherwise the 12     *)
(* lowercase hex digits of those six bytes in order, without separators.     *)
C12_V5MacAddress ==
    (Decoded /\ RecordVariant = "V5") =>
        LET tail == SubSeq(RecordBytes, 19, 24)
            mac == Record.mac_address
        IN  /\ (mac = <<"i", "n", "v", "a", "l", "i", "d">>) <=> AllFF(tail)
            /\ ~AllFF(tail) => (Len(mac) = 12 /\ mac = LowerHexOf(tail))

\* v5::decode rendered an address of which five bytes are 0xFF as hex.
C12_Witness ==
    /\ call = "v5::decode"
    /\ IsOk(result)
    /\ SubSeq(bytes, 19, 24) = <<255, 255, 255, 255, 255, 254>>
    /\ result.value.mac_address =
           <<"f", "f", "f", "f", "f", "f", "f", "f", "f", "f", "f", "e">>

\* v5::decode rendered the all-0xFF address as the literal.
C12_WitnessInvalid ==
    /\ call = "v5::decode"
    /\ IsOk(result)
    /\ AllFF(SubSeq(bytes, 19, 24))
    /\ result.value.mac_address = INVALID_MAC

(* C13 as stated: in every record of the three decoders the hardware address *)
(* consists of lowercase hex characters only, without separators, has        *)
(* length 12 (Variant A), 6 (Variant B) or 12 (Variant C), and is the hex    *)
(* rendering of the final 6, 3 or 6 bytes of the buffer.                     *)
C13_MacIsLowerHex ==
    Decoded =>
        LET tail == MacTail(RecordVariant, RecordBytes)
            mac == Record.mac_address
        IN  /\ \A i \in 1..Len(mac) : mac[i] \in LowerHexChars
            /\ Len(mac) = 2 * MacBytes(RecordVariant)
            /\ mac = LowerHexOf(tail)

(* C13, amended: in every record of the three decoders the hardware address  *)
(* consists of lowercase hex characters only, without separators, has        *)
(* length 12 (Variant A), 6 (Variant B) or 12 (Variant C), and is the hex    *)
(* rendering of the final 6, 3 or 6 bytes of the buffer, except in a Variant *)
(* A record whose final six bytes are all 0xFF, where it is the literal      *)
(* "invalid".                                                                *)
C13_MacIsLowerHexOrInvalid ==
    Decoded =>
        LET tail == MacTail(RecordVariant, RecordBytes)
            mac == Record.mac_address
        IN  IF RecordVariant = "V5" /\ AllFF(tail)
            THEN mac = <<"i", "n", "v", "a", "l", "i", "d">>
            ELSE /\ \A i \in 1..Len(mac) : mac[i] \in LowerHexChars
                 /\ Len(mac) = 2 * MacBytes(RecordVariant)
                 /\ mac = LowerHexOf(tail)

\* e1::decode rendered the all-0xFF address as twelve hex digits: Variant C has
\* no literal.
C13_Witness ==
    /\ call = "e1::decode"
    /\ IsOk(result)
    /\ AllFF(SubSeq(bytes, 35, 40))
    /\ result.value.mac_address =
           <<"f", "f", "f", "f", "f", "f", "f", "f", "f", "f", "f", "f">>

---------------------------------------------------------------------------
(* Advertisements                                                          *)

\* The upper-case form of a string of hex digits, digit by digit.
UpperHexOf(s) == [i \in 1..Len(s) |-> UpperDigits[DigitValue(s[i]) + 1]]
\* s without its leading and trailing white space, by position.
Trimmed(s) ==
    LET inner == {i \in 1..Len(s) : s[i] \notin WhiteSpace} IN
    IF inner = {} THEN <<>>
    ELSE SubSeq(s, CHOOSE i \in inner : \A j \in inner : i <= j,
                   CHOOSE i \in inner : \A j \in inner : i >= j)
\* s consists of hex digits and begins with one of the two markers.
MarkedHex(s) ==
    /\ \A i \in 1..Len(s) : s[i] \in HexDigits
    /\ Len(s) >= 4
    /\ SubSeq(s, 1, 4) \in {<<"9", "9", "0", "4">>, <<"0", "4", "9", "9">>}

C14_WitnessEmpty ==
    /\ call = "extract_ruuvi_from_ble"
    /\ ble_data = <<"9", "9", "0", "4">>
    /\ result.value = Some(<<>>)

\* A marker that starts at position 4 gives None.
C14_WitnessLater ==
    /\ call = "extract_ruuvi_from_ble"
    /\ bytes = V5_VALID
    /\ ble_data = Advertise(bytes, "later")
    /\ result.value = None

(* C15: for every hex payload P, of any of the three formats and in either   *)
(* letter case, and either marker M of "9904" and "0499", decode of the      *)
(* payload extracted from M + P returns exactly what decode(P) returns: the  *)
(* same record or the same error.                                            *)
C15_DecodeOfExtractIsDecode ==
    (/\ call = "decode(extract_ruuvi_from_ble)"
     /\ MarkedHex(ble_data))
    => result = Decode(SubSeq(ble_data, 5, Len(ble_data)))

\* The lower-case Format 6 payload behind the marker 0499 decoded to the record
\* of its bytes.
C15_Witness ==
    /\ call = "decode(extract_ruuvi_from_ble)"
    /\ bytes = V6_VALID
    /\ ble_data = Advertise(bytes, "0499lower")
    /\ IsOk(result)
    /\ result.value.variant = "V6"
    /\ result = RuuviDataDecode(bytes)

---------------------------------------------------------------------------
(* Presentation                                                            *)

\* The presentations of a payload that the front end is to read alike: upper
\* case, lower case, white space around, one 0x prefix, spaces inside.
SamePayloadStyles ==
    {"upper", "lower", "0x", "trimmed", "spaced", "0xlower", "padded0x"}

(* C16: decode returns the same result for a hex payload H in upper case, in *)
(* lower case, with leading or trailing white space, behind one "0x" prefix, *)
(* and with space characters between its characters.                         *)
C16_PresentationInvariant ==
    (/\ call = "decode"
     /\ \E style \in SamePayloadStyles : hex_data = Present(bytes, style))
    => result = Decode(HexText(bytes, UpperDigits))

\* decode read the Format 5 payload with white space around, a 0x prefix and a
\* space after every character, and returned the record of its bytes.
C16_Witness ==
    /\ call = "decode"
    /\ bytes = V5_VALID
    /\ hex_data = Present(bytes, "padded0x")
    /\ IsOk(result)
    /\ result = RuuviDataDecode(bytes)

\* decode gave the same length error for a truncated payload in lower case.
C16_WitnessError ==
    /\ call = "decode"
    /\ bytes = Resize(V5_VALID, "truncate")
    /\ hex_data = Present(bytes, "lower")
    /\ result = Err(invalid_length(24, 23))

---------------------------------------------------------------------------
(* State, effects and threads                                              *)

\* Thread t has returned from a call.
HasReturned(t) == threads[t].pc = "returned"
\* Thread t has returned from its first call; thread u has returned from a
\* later one.
FreshAndLater(t, u) ==
    /\ HasReturned(t) /\ threads[t].done = 1
    /\ HasReturned(u) /\ threads[u].done > 1

C18_NoSideEffect ==
    call # "none" => stdout = <<>>

(* C19 as stated: when threads call the decoders concurrently on inputs of   *)
(* their own, with no synchronization, then under every interleaving each    *)
(* call returns what it returns when run alone, and no call touches a        *)
(* resource shared with another call: no thread is at, or past, a write to   *)
(* the standard output that all threads share.                               *)
C19_ThreadsShareNothing ==
    /\ \A t \in Threads :
           HasReturned(t) => threads[t].result = ResultOf(threads[t].op, threads[t].input)
    /\ \A t \in Threads : threads[t].pc # "printed"
    /\ stdout = <<>>

---------------------------------------------------------------------------
(* Physical ranges                                                         *)

\* The range documented on each optional field of a record type, in the units
\* of the model (reals in ten-thousandths; Variant A pressure in Pa, Variants
\* B and C in hPa). Variant B's luminosity has no documented range: its bound
\* is the clamp of the decoder.
DocumentedRange(variant) ==
    CASE variant = "V5" ->
           [temperature |-> <<-1638350, 1638350>>,
            humidity |-> <<0, 1638350>>,
            pressure |-> <<500000000, 1155350000>>,
            acceleration_x |-> <<-32767, 32767>>,
            acceleration_y |-> <<-32767, 32767>>,
            acceleration_z |-> <<-32767, 32767>>,
            battery_voltage |-> <<1600, 3646>>,
            tx_power |-> <<-40, 20>>,
            movement_counter |-> <<0, 254>>,
            measurement_sequence |-> <<0, 65534>>]
      [] variant = "V6" ->
           [temperature |-> <<-1638350, 1638350>>,
            humidity |-> <<0, 1000000>>,
            pressure |-> <<5000000, 11553500>>,
            pm2_5 |-> <<0, 10000000>>,
            co2 |-> <<0, 40000>>,
            voc_index |-> <<0, 500>>,
            nox_index |-> <<0, 500>>,
            luminosity |-> <<0, 655350000>>,
            reserved |-> <<0, 255>>,
            measurement_sequence |-> <<0, 255>>]
      [] variant = "E1" ->
           [temperature |-> <<-1638350, 1638350>>,
            humidity |-> <<0, 1638350>>,
            pressure |-> <<5000000, 11553400>>,
            pm1_0 |-> <<0, 10000000>>,
            pm2_5 |-> <<0, 10000000>>,
            pm4_0 |-> <<0, 10000000>>,
            pm10_0 |-> <<0, 10000000>>,
            co2 |-> <<0, 40000>>,
            voc_index |-> <<0, 500>>,
            nox_index |-> <<0, 500>>,
            luminosity |-> <<0, 1442840000>>,
            measurement_sequence |-> <<0, 16777214>>]

\* Every present field of record r lies in its documented range.
WithinRange(variant, r) ==
    LET range == DocumentedRange(variant) IN
    \A f \in DOMAIN range :
        IsSome(r[f]) => (range[f][1] <= Unwrap(r[f]) /\ Unwrap(r[f]) <= range[f][2])

(* C20 as stated: in every record of every decoder each present field lies   *)
(* within the physical range documented for it on its record type: Variant A *)
(* pressure within 500-1155.35 hPa, Variant C particulate channels within    *)
(* 0..1000, CO2 within 0..40000, luminosity within 0..144284, VOC and NOx    *)
(* within 0..500, and so on for every field.                                 *)
C20_WithinDocumentedRange ==
    Decoded => WithinRange(RecordVariant, Record)

---------------------------------------------------------------------------
(* The order of the checks                                                 *)

\* The lengths the three decoders accept.
AcceptedLengths == {FixedLength(f) : f \in RegisteredFormats}
\* The text handed to decode denotes a non-empty byte sequence.
DenotesBytes == ValidHexText(CleanHex(hex_data)) /\ Len(CleanHex(hex_data)) >= 2
\* The bytes it denotes.
DenotedBytes == hex_to_bytes(CleanHex(hex_data)).value
\* A per-variant decoder was called on a buffer that has neither its length
\* nor its identifier.
WrongLengthAndFormat ==
    /\ call \in VariantDecoders
    /\ bytes # <<>>
    /\ Len(bytes) # FixedLength(OwnFormat(call))
    /\ At(bytes, 0) # OwnFormat(call)

(* C21 as stated: the length is validated before the format identifier, in   *)
(* the top-level decode and in each per-variant decoder: an input whose      *)
(* length matches no accepted length and whose identifier is unrecognized    *)
(* (top level) or not the decoder's own (per variant) is reported as         *)
(* InvalidLength, not UnsupportedFormat.                                     *)
C21_LengthBeforeFormat ==
    /\ (/\ call = "decode"
        /\ DenotesBytes
        /\ Len(DenotedBytes) \notin AcceptedLengths
        /\ At(DenotedBytes, 0) \notin RegisteredFormats)
       => (IsErr(result) /\ result.error.kind = "InvalidLength")
    /\ WrongLengthAndFormat
       => (IsErr(result) /\ result.error.kind = "InvalidLength")

(* C21, amended: each per-variant decoder validates the length before the    *)
(* identifier, so a buffer with neither its length nor its identifier is     *)
(* reported as InvalidLength with the expected and actual counts, and only   *)
(* that failure is reported. The top-level decode checks only that the input *)
(* is not empty before it reads the identifier: a non-empty input whose      *)
(* first byte is unregistered is reported as UnsupportedFormat carrying that *)
(* byte whatever its length, and one whose first byte is registered but      *)
(* whose length is not that format's as InvalidLength.                       *)
C21_OrderOfChecks ==
    /\ WrongLengthAndFormat
       => result = Err(invalid_length(FixedLength(OwnFormat(call)), Len(bytes)))
    /\ (call = "decode" /\ DenotesBytes /\ At(DenotedBytes, 0) \notin RegisteredFormats)
       => result = Err(UnsupportedFormat(At(DenotedBytes, 0)))
    /\ (/\ call = "decode"
        /\ DenotesBytes
        /\ At(DenotedBytes, 0) \in RegisteredFormats
        /\ Len(DenotedBytes) # FixedLength(At(DenotedBytes, 0)))
       => result = Err(invalid_length(FixedLength(At(DenotedBytes, 0)), Len(DenotedBytes)))

\* e1::decode was handed 25 bytes that begin with 99 and reported the length.
C21_Witness ==
    /\ call = "e1::decode"
    /\ Len(bytes) = 25
    /\ At(bytes, 0) = 99
    /\ result = Err(invalid_length(40, 25))

\* decode was handed the text of 26 bytes that begin with 99 and reported the
\* identifier.
C21_WitnessTopLevel ==
    /\ call = "decode"
    /\ DenotesBytes
    /\ Len(DenotedBytes) = 26
    /\ result = Err(UnsupportedFormat(99))

(* C22: a per-variant decoder called with a buffer of its own length (24,    *)
(* 20, 40) whose first byte is not its own identifier returns                *)
(* UnsupportedFormat carrying that byte, also when the byte is the           *)
(* identifier of another registered format.                                  *)
C22_ForeignIdentifierRejected ==
    (/\ call \in VariantDecoders
     /\ Len(bytes) = FixedLength(OwnFormat(call))
     /\ At(bytes, 0) # OwnFormat(call))
    => result = Err(UnsupportedFormat(At(bytes, 0)))

\* v6::decode was handed 20 bytes that begin with the Format 5 identifier.
C22_Witness ==
    /\ call = "v6::decode"
    /\ Len(bytes) = 20
    /\ At(bytes, 0) = 5
    /\ result = Err(UnsupportedFormat(5))

---------------------------------------------------------------------------
(* The fields of Variants B and C                                          *)

\* Some(v), or None when absent holds.
Unless(absent, v) == IF absent THEN None ELSE Some(v)

(* C23: for every 20-byte Variant B buffer, big-endian: temperature is       *)
(* signed16(bytes 1-2) x 0.005, None iff raw = 0x8000; humidity is           *)
(* unsigned16(bytes 3-4) x 0.0025, None iff raw > 40000; pressure is         *)
(* (unsigned16(bytes 5-6) + 50000) / 100 hPa, None iff raw = 0xFFFF; pm2_5   *)
(* is unsigned16(bytes 7-8) x 0.1, None iff raw > 10000; co2 is              *)
(* unsigned16(bytes 9-10), None iff raw > 40000; reserved,                   *)
(* measurement_sequence and flags are always present and are bytes 14, 15    *)
(* and 16 unchanged (reals in ten-thousandths).                              *)
C23_V6FieldValues ==
    (Decoded /\ RecordVariant = "V6") =>
        LET b == RecordBytes
            r == Record
        IN  /\ Len(b) = 20
            /\ r.temperature = Unless(Word(b, 1) = 32768, Signed16(Word(b, 1)) * 50)
            /\ r.humidity = Unless(Word(b, 3) > 40000, Word(b, 3) * 25)
            /\ r.pressure = Unless(Word(b, 5) = 65535, (Word(b, 5) + 50000) * 100)
            /\ r.pm2_5 = Unless(Word(b, 7) > 10000, Word(b, 7) * 1000)
            /\ r.co2 = Unless(Word(b, 9) > 40000, Word(b, 9))
            /\ r.reserved = Some(At(b, 14))
            /\ r.measurement_sequence = Some(At(b, 15))
            /\ r.flags = At(b, 16)
            /\ b = V6_MAXIMUM =>
                   /\ r.temperature = Some(1638350)
                   /\ r.humidity = Some(1000000)
                   /\ r.pressure = Some(11553400)
                   /\ r.pm2_5 = Some(10000000)
                   /\ r.co2 = Some(40000)
            /\ b = V6_MINIMUM =>
                   /\ r.temperature = Some(-1638350)
                   /\ r.humidity = Some(0)
                   /\ r.pressure = Some(5000000)
                   /\ r.pm2_5 = Some(0)
                   /\ r.co2 = Some(0)

\* v6::decode kept a humidity of exactly 40000 raw units, as 100 %, and the
\* three raw bytes.
C23_Witness ==
    /\ call = "v6::decode"
    /\ IsOk(result)
    /\ Word(bytes, 3) = 40000
    /\ result.value.humidity = Some(1000000)
    /\ result.value.reserved = Some(At(bytes, 14))
    /\ result.value.flags = At(bytes, 16)

\* The data bytes and the flags byte of the gas indices of a variant.
GasBytes(variant) ==
    IF variant = "V6" THEN [voc |-> 11, nox |-> 12, flags |-> 16]
    ELSE [voc |-> 17, nox |-> 18, flags |-> 28]

(* C24: in Variants B and C the VOC and NOx indices are 9-bit values, (data  *)
(* byte x 2) + flag bit, the flag bit being bit 6 of the flags byte for VOC  *)
(* and bit 7 for NOx (data bytes 11/12 and flags byte 16 in Variant B, 17/18 *)
(* and 28 in Variant C); an index is None iff that value is above 500 and is *)
(* otherwise that value, so a present index is within 0..500, and bits 0-5   *)
(* of the flags byte take no part.                                           *)
C24_GasIndices ==
    (Decoded /\ RecordVariant \in {"V6", "E1"}) =>
        LET b == RecordBytes
            r == Record
            at == GasBytes(RecordVariant)
            flags == At(b, at.flags)
            voc == At(b, at.voc) * 2 + ((flags \div 64) % 2)
            nox == At(b, at.nox) * 2 + (flags \div 128)
        IN  /\ r.voc_index = Unless(voc > 500, voc)
            /\ r.nox_index = Unless(nox > 500, nox)
            /\ IsSome(r.voc_index) => Unwrap(r.voc_index) \in 0..500
            /\ IsSome(r.nox_index) => Unwrap(r.nox_index) \in 0..500

\* v6::decode read the VOC byte 250 with bit 6 of the flags set, 501, as
\* absent, and the NOx byte 250 with bit 7 clear, 500, as present; the low
\* bits of the flags byte are set.
C24_Witness ==
    /\ call = "v6::decode"
    /\ IsOk(result)
    /\ At(bytes, 11) = 250
    /\ At(bytes, 12) = 250
    /\ At(bytes, 16) = 127
    /\ IsNone(result.value.voc_index)
    /\ result.value.nox_index = Some(500)

(* C25: for every 40-byte Variant C buffer, big-endian: temperature,         *)
(* humidity and pressure are None exactly at 0x8000, 0xFFFF and 0xFFFF and   *)
(* otherwise raw x 0.005, raw x 0.0025 and (raw + 50000) / 100 hPa; PM1.0,   *)
(* PM2.5, PM4.0 and PM10.0 are unsigned16 of bytes 7-8, 9-10, 11-12, 13-14 x *)
(* 0.1, None iff 0xFFFF; co2 is unsigned16(bytes 15-16), None iff 0xFFFF;    *)
(* luminosity is unsigned24(bytes 19-21) x 0.01, None iff 0xFFFFFF;          *)
(* measurement_sequence is unsigned24(bytes 25-27), None iff 0xFFFFFF; flags *)
(* is byte 28; bytes 22-24 and 29-33 take part in no field.                  *)
C25_E1FieldValues ==
    (Decoded /\ RecordVariant = "E1") =>
        LET b == RecordBytes
            r == Record
            pm(i) == Unless(Word(b, i) = 65535, Word(b, i) * 1000)
        IN  /\ Len(b) = 40
            /\ r.temperature = Unless(Word(b, 1) = 32768, Signed16(Word(b, 1)) * 50)
            /\ r.humidity = Unless(Word(b, 3) = 65535, Word(b, 3) * 25)
            /\ r.pressure = Unless(Word(b, 5) = 65535, (Word(b, 5) + 50000) * 100)
            /\ r.pm1_0 = pm(7)
            /\ r.pm2_5 = pm(9)
            /\ r.pm4_0 = pm(11)
            /\ r.pm10_0 = pm(13)
            /\ r.co2 = Unless(Word(b, 15) = 65535, Word(b, 15))
            /\ r.luminosity = Unless(Word24(b, 19) = 16777215, Word24(b, 19) * 100)
            /\ r.measurement_sequence = Unless(Word24(b, 25) = 16777215, Word24(b, 25))
            /\ r.flags = At(b, 28)
            /\ DOMAIN r = {"temperature", "humidity", "pressure", "pm1_0", "pm2_5",
                           "pm4_0", "pm10_0", "co2", "voc_index", "nox_index",
                           "luminosity", "measurement_sequence", "flags", "mac_address"}

\* e1::decode returned, for a buffer that differs from the test vector in
\* bytes 22-23 only, the record of the test vector.
C25_Witness ==
    /\ call = "e1::decode"
    /\ bytes = EditWord(E1_MINIMUM, 22, 65535)
    /\ bytes # E1_MINIMUM
    /\ IsOk(result)
    /\ result = E1Decode(E1_MINIMUM)
    /\ result.value.pm1_0 = Some(10000000)

(* C26: Variant B luminosity is None iff byte 13 is 255; for every code c in *)
(* 0..254 it is present and is min(exp(c x ln(65536)/254) - 1, 65535): code  *)
(* 0 gives exactly 0, the value is strictly above that of code c - 1 and     *)
(* grows by the factor 65536^(1/254) (between 1.044 and 1.046) per code,     *)
(* code 127 gives 255, code 254 gives 65535 within 1.0, and no value exceeds *)
(* 65535.                                                                    *)
C26_V6Luminosity ==
    (Decoded /\ RecordVariant = "V6") =>
        LET c == At(RecordBytes, 13)
            lum == Record.luminosity
            v == lum[1]
            below == V6Luminosity(c - 1)[1]
        IN  /\ (lum = None) <=> (c = 255)
            /\ c # 255 =>
                /\ Len(lum) = 1
                /\ v >= 0 /\ v <= 655350000
                /\ (c = 0) => (v = 0)
                /\ (c = 127) => (v >= 2550000 - 1 /\ v <= 2550000 + 1)
                /\ (c = 254) => (v >= 655350000 - 10000)
                /\ (c > 0) =>
                    /\ v > below
                    /\ v - below >= ((below + 10000) \div 1000) * 44
                    /\ v - below <= ((below + 10000) \div 1000) * 46 + 46

\* v6::decode returned a record for the highest code, 254, with a luminosity
\* within 1.0 of 65535.
C26_Witness ==
    /\ call = "v6::decode"
    /\ IsOk(result)
    /\ At(bytes, 13) = 254
    /\ result.value.luminosity # None
    /\ result.value.luminosity[1] >= 655340000
    /\ result.value.luminosity[1] <= 655350000

\* v6::decode returned a record without luminosity for code 255.
C26_WitnessAbsent ==
    /\ call = "v6::decode"
    /\ IsOk(result)
    /\ bytes = EditByte(V6_VALID, 13, 255)
    /\ result.value.luminosity = None

(* C27: for Variant A the radiated power is -40 + 2 x v with v the lower 5   *)
(* bits of the power word read as a 5-bit two's-complement number (16..30    *)
(* standing for -16..-2), and is absent exactly when the 5 bits are 31.      *)
C27_SignedFiveBits ==
    (Decoded /\ RecordVariant = "V5") =>
        LET raw == Word(RecordBytes, 13) % 32
            v == IF raw >= 16 THEN raw - 32 ELSE raw
        IN  /\ IsNone(Record.tx_power) <=> raw = 31
            /\ IsSome(Record.tx_power) => Unwrap(Record.tx_power) = -40 + 2 * v

(* C27, as the code has it: the radiated power is -40 + 2 x v with v the     *)
(* lower 5 bits of the power word read as an unsigned number 0..30, so the   *)
(* codes 16..30 give -8..20 dBm; it is absent exactly when the 5 bits are    *)
(* 31; the two readings of the 5 bits agree exactly for the codes below 16.  *)
C27_UnsignedFiveBits ==
    (Decoded /\ RecordVariant = "V5") =>
        LET v == Word(RecordBytes, 13) % 32
            signed == IF v >= 16 THEN v - 32 ELSE v
            tx == Record.tx_power
        IN  /\ (tx = None) <=> (v = 31)
            /\ (v # 31) =>
                /\ tx = Some(-40 + 2 * v)
                /\ (v >= 16) => (tx[1] \in -8..20 /\ tx # Some(-40 + 2 * signed))
                /\ (v < 16) => (tx[1] \in -40..-10 /\ tx = Some(-40 + 2 * signed))

\* v5::decode read the 5 bits 10000 (16): the power is -8 dBm, where the
\* signed reading of the bits gives -72.
C27_Witness ==
    /\ call = "v5::decode"
    /\ IsOk(result)
    /\ Word(bytes, 13) % 32 = 16
    /\ result.value.tx_power = Some(-8)

\* The decoder of a registered format, applied to b.
DecoderOf(f, b) ==
    CASE f = "V5" -> V5Decode(b)
      [] f = "V6" -> V6Decode(b)
      [] f = "E1" -> E1Decode(b)
\* The number of address bytes of a registered format.
AddressSize(f) == CASE f = "V5" -> 6 [] f = "V6" -> 3 [] f = "E1" -> 6

C28_WitnessUnregistered ==
    /\ call = "RuuviData::decode"
    /\ At(bytes, 0) = 7
    /\ from_u8(7) = None
    /\ result = Err(UnsupportedFormat(7))

\* The length the registry gives for Format 6 is that of a buffer the
\* dispatcher has decoded.
C28_WitnessLength ==
    /\ call = "DataFormat::payload_with_mac_length"
    /\ bytes = V6_VALID
    /\ result.value = 20
    /\ IsOk(RuuviDataDecode(bytes))

(* C29: for every non-empty byte sequence B, RuuviData::decode(B) and        *)
(* RuuviData::try_from(B) return exactly what decode returns for the hex     *)
(* encoding of B, in upper or lower case: the same record, or the same error *)
(* kind with the same payload.                                               *)
C29_BytesAsText ==
    (call # "none" /\ bytes # <<>>) =>
        /\ call \in SliceDispatchers =>
            /\ result = Decode(HexText(bytes, UpperDigits))
            /\ result = Decode(HexText(bytes, LowerDigits))
            /\ result.tag \in {"Ok", "Err"}
        /\ (call = "decode" /\ hex_data \in {HexText(bytes, UpperDigits),
                                             HexText(bytes, LowerDigits)}) =>
            /\ result = RuuviDataDecode(bytes)
            /\ result = TryFrom(bytes)

\* RuuviData::try_from returned the record of the Variant C test vector, the
\* one decode returns for its hex text.
C29_Witness ==
    /\ call = "RuuviData::try_from"
    /\ bytes = E1_VALID
    /\ IsOk(result)
    /\ result.value.variant = "E1"
    /\ result = Decode(hex_data)

\* RuuviData::decode returned the error decode returns: the length error of
\* a truncated buffer.
C29_WitnessError ==
    /\ call = "RuuviData::decode"
    /\ bytes = Resize(V5_VALID, "truncate")
    /\ result = Err(invalid_length(24, Len(bytes)))
    /\ result = Decode(HexText(bytes, UpperDigits))

(* C30: calculate_air_quality returns None for every Variant A record; for a *)
(* Variant B or C record it returns a value exactly when pm2_5 and co2 are   *)
(* both present; a returned value is within 0..100, is 100 when pm2_5 <= 0   *)
(* and co2 <= 420, and is 0 when pm2_5 >= 60 or co2 >= 2300, inputs outside  *)
(* the scales counting as the nearest end of the scale.                      *)
C30_AirQuality ==
    (call = "RuuviData::calculate_air_quality") =>
        LET self == RuuviDataDecode(bytes).value
            pm2_5 == self.data.pm2_5
            co2 == self.data.co2
            aqi == result.value
        IN  /\ self.variant = "V5" => aqi = None
            /\ self.variant \in {"V6", "E1"} =>
                /\ IsSome(aqi) <=> (IsSome(pm2_5) /\ IsSome(co2))
                /\ IsSome(aqi) =>
                    /\ Unwrap(aqi) >= 0
                    /\ Unwrap(aqi) <= 1000000
                    /\ (Unwrap(pm2_5) <= 0 /\ Unwrap(co2) <= 420) => Unwrap(aqi) = 1000000
                    /\ (Unwrap(pm2_5) >= 600000 \/ Unwrap(co2) >= 2300) => Unwrap(aqi) = 0
                    /\ aqi = Some(calc_aqi(Clamp(Unwrap(pm2_5), 0, 600000),
                                           Clamp(Unwrap(co2), 420, 2300)))

\* The index of a Variant B record at the midpoint of both scales (PM2.5 30.0,
\* CO2 1360): 29.29, neither end of the range.
C30_Witness ==
    /\ call = "RuuviData::calculate_air_quality"
    /\ bytes = EditWord(EditWord(V6_VALID, 7, 300), 9, 1360)
    /\ result.value = Some(292900)

\* A Variant C record with CO2 but without PM2.5 has no index.
C30_WitnessAbsent ==
    /\ call = "RuuviData::calculate_air_quality"
    /\ bytes = EditWord(EditWord(E1_VALID, 9, 65535), 15, 420)
    /\ result.value = None

\* A Variant C record with CO2 below the scale and no dust has the index 100.
C30_WitnessBest ==
    /\ call = "RuuviData::calculate_air_quality"
    /\ bytes = EditWord(EditWord(E1_VALID, 9, 0), 15, 201)
    /\ result.value = Some(1000000)

\* A Variant A record has no index.
C30_WitnessVariantA ==
    /\ call = "RuuviData::calculate_air_quality"
    /\ bytes = V5_VALID
    /\ result.value = None

=============================================================================
